---- MODULE Spec2Model ----
(***************************************************************************)
(* Model of the resume text parser and skills renderer of                  *)
(* src/generator/pdf_generator.py (PDFCreator), of the application and     *)
(* profile stores of src/generator/data_manager.py (DataManager) as        *)
(* src/main.py calls them, and of generate_resume and                      *)
(* generate_cover_letter of src/generator/ai_generator.py (AIGenerator).   *)
(*                                                                         *)
(* Text.  A Python str is modelled as a sequence of chunks.  A chunk is a  *)
(* TLA+ string standing for that run of characters ("John", "@", " ",      *)
(* "\n"); the three characters of the mis-decoded bullet are the chunks    *)
(* "U201A", "U00C4", "U00A2" (one character each).  The vocabulary is      *)
(* chosen so that a character-level substring test for any literal the     *)
(* code searches for coincides with the chunk-level test: no literal       *)
(* straddles a chunk boundary, and a chunk is either all whitespace or     *)
(* has no whitespace at all.                                               *)
(***************************************************************************)
EXTENDS Integers, Sequences, FiniteSets, TLC

\* --------------------------------------------------------------- bounds
\* Longest input text of the parser, in lines.
MaxLines == 4

\* ------------------------------------------------------- str primitives
NL == "\n"

\* str.upper() on one chunk.
Upper(c) ==
    CASE c = "Skills"    -> "SKILLS"
      [] c = "Education" -> "EDUCATION"
      [] c = "John"      -> "JOHN"
      [] c = "Doe"       -> "DOE"
      [] c = "Python"    -> "PYTHON"
      [] c = "Phone"     -> "PHONE"
      [] c = "http"      -> "HTTP"
      [] c = "jd"        -> "JD"
      [] c = "x"         -> "X"
      [] c = "skills"     -> "SKILLS"
      [] c = "Experience" -> "EXPERIENCE"
      [] c = "experience" -> "EXPERIENCE"
      [] c = "education"  -> "EDUCATION"
      [] OTHER           -> c

\* str.upper()
UpperStr(s) == [k \in 1..Len(s) |-> Upper(s[k])]

\* True iff p occurs in s at position k (1-based).
OccursAt(s, p, k) ==
    /\ k + Len(p) - 1 <= Len(s)
    /\ \A j \in 1..Len(p) : s[k + j - 1] = p[j]

\* `p in s`
Contains(s, p) == \E k \in 1..(Len(s) - Len(p) + 1) : OccursAt(s, p, k)

\* s.startswith(p)
StartsWith(s, p) == OccursAt(s, p, 1)

\* Characters str.strip() removes.
IsSpace(c) == c \in {" ", "\t", NL}

RECURSIVE LStrip(_)
LStrip(s) == IF s # <<>> /\ IsSpace(Head(s)) THEN LStrip(Tail(s)) ELSE s

RECURSIVE RStrip(_)
RStrip(s) ==
    IF s # <<>> /\ IsSpace(s[Len(s)]) THEN RStrip(SubSeq(s, 1, Len(s) - 1)) ELSE s

\* str.strip()
Strip(s) == RStrip(LStrip(s))

\* s.replace(old, new): one left-to-right pass over non-overlapping
\* occurrences; text produced by a replacement is not scanned again.
RECURSIVE Replace(_, _, _)
Replace(s, old, new) ==
    IF s = <<>> THEN <<>>
    ELSE IF OccursAt(s, old, 1)
         THEN new \o Replace(SubSeq(s, Len(old) + 1, Len(s)), old, new)
         ELSE <<Head(s)>> \o Replace(Tail(s), old, new)

\* '\n'.join(ls)
RECURSIVE JoinLines(_)
JoinLines(ls) ==
    IF ls = <<>> THEN <<>>
    ELSE IF Len(ls) = 1 THEN ls[1]
    ELSE ls[1] \o <<NL>> \o JoinLines(Tail(ls))

\* s.split('\n'): always at least one element.
RECURSIVE SplitLines(_)
SplitLines(s) ==
    IF \A k \in 1..Len(s) : s[k] # NL THEN <<s>>
    ELSE LET k == CHOOSE k \in 1..Len(s) :
                     s[k] = NL /\ \A j \in 1..(k - 1) : s[j] # NL
         IN  <<SubSeq(s, 1, k - 1)>> \o SplitLines(SubSeq(s, k + 1, Len(s)))

\* len(s) in characters.
RECURSIVE StrLen(_)
StrLen(s) ==
    IF s = <<>> THEN 0
    ELSE (IF Head(s) \in {"U201A", "U00C4", "U00A2", "U2022"} THEN 1
          ELSE Len(Head(s)))
         + StrLen(Tail(s))


\* ------------------------------------------------------------- variables
VARIABLES
    lines,              \* PDFCreator: the lines of resume_text read so far
    sections,           \* PDFCreator: the mapping _parse_resume_text builds
    current_section,    \* PDFCreator: section cursor, "None" when unset
    current_content,    \* PDFCreator: lines accumulated for the cursor
    pc,                 \* PDFCreator: "loop" | "parsed" | "rendered"
    story,              \* PDFCreator: paragraphs emitted for the skills section
    applications_file,  \* DataManager: content of data/job_applications.json
    result,             \* what the last call returned
    printed,            \* notices the last call printed
    profiles_file,      \* DataManager: content of data/user_profiles.json
    saved,              \* history: the profile of the last save_user_profile
    api_key,            \* environment: TOGETHER_API_KEY, '' when unset
    requests,           \* Together AI: completion requests issued so far
    call,               \* AIGenerator: the last call and its arguments
    raised,             \* AIGenerator: exception the last call let escape
    writers,            \* sessions inside save_job_application: their locals
    saves,              \* history: save_job_application calls that returned
    stale,              \* history: writes of a list read before another write
    document            \* PDFCreator: the last create_resume_pdf call

parserVars  == <<lines, sections, current_section, current_content, pc, story>>
storeVars   == <<applications_file, result, printed>>
profileVars == <<profiles_file, saved>>
genVars     == <<api_key, requests, call, raised>>
raceVars    == <<writers, saves, stale>>
docVars     == <<document>>
vars        == <<lines, sections, current_section, current_content, pc, story,
                 applications_file, result, printed, profiles_file, saved,
                 api_key, requests, call, raised, writers, saves, stale,
                 document>>

\* What a step of the parser, of the application records, of the profile,
\* of the generator, of two sessions saving at once and of create_resume_pdf
\* leave alone.
notParser  == <<storeVars, profileVars, genVars, raceVars, docVars>>
notRecords == <<parserVars, profileVars, genVars, raceVars, docVars>>
notProfile == <<parserVars, genVars, raceVars, docVars>>
notGen     == <<parserVars, profileVars, raceVars, docVars>>
notRace    == <<parserVars, profileVars, genVars, docVars>>
notDoc     == <<parserVars, storeVars, profileVars, genVars, raceVars>>

\* =====================================================================
\* PDFCreator._parse_resume_text
\* =====================================================================

\* The literal '‚Ä¢' (U+201A U+00C4 U+00A2): a bullet read in the wrong
\* encoding.
BULLET_ARTIFACT == <<"U201A", "U00C4", "U00A2">>

SectionKeys ==
    {"name", "contact", "summary", "skills", "experience", "education",
     "additional"}

\* EmptySections with the 'additional' default forgotten.
EmptySectionsWithoutAdditional == [k \in SectionKeys \ {"additional"} |-> <<>>]

\* The dict literal `sections = {...}`.
EmptySections == [k \in SectionKeys |-> <<>>]

\* Raw lines a text is made of: empty, blank, braces only, a separator
\* row, a plain line, the four headers (one in mixed case with trailing
\* text), contact lines, and body lines that cannot be a name or a contact.
InputLines ==
    { <<>>,
      <<" ">>,
      <<"{", "}">>,
      <<"|", " ", "|">>,
      <<" ", "John", " ", "Doe">>,
      <<"PROFESSIONAL", " ", "SUMMARY">>,
      <<"Skills", ":", " ", "jd", "@", "x", " ", "|", " ", "Phone">>,
      <<"EXPERIENCE">>,
      <<"Education">>,
      <<"jd", "@", "x">>,
      <<"U201A", "U00C4", "U00A2", " ", "Phone">>,
      <<"http", "x">>,
      <<"U201A", "U00C4", "U00A2", " ", "Python">> }

\* `if not line or line.startswith('}') or line.startswith('{')`
IsSkipped(line) ==
    \/ line = <<>>
    \/ StartsWith(line, <<"}">>)
    \/ StartsWith(line, <<"{">>)

\* The if/elif chain on line_upper: the section a header line opens, "None"
\* for a line that is no header.
HeaderOf(line) ==
    LET line_upper == UpperStr(line) IN
    IF Contains(line_upper, <<"PROFESSIONAL", " ", "SUMMARY">>) THEN "summary"
    ELSE IF \/ Contains(line_upper, <<"TECHNICAL", " ", "SKILLS">>)
            \/ Contains(line_upper, <<"SKILLS">>) THEN "skills"
    ELSE IF \/ Contains(line_upper, <<"PROFESSIONAL", " ", "EXPERIENCE">>)
            \/ Contains(line_upper, <<"EXPERIENCE">>) THEN "experience"
    ELSE IF Contains(line_upper, <<"EDUCATION">>) THEN "education"
    ELSE "None"

\* IsNameLine without the `not sections['name']` test.
IsNameLineEveryTime(secs, line) ==
    /\ ~Contains(line, <<"@">>)
    /\ ~Contains(line, <<"http">>)

\* `not sections['name'] and '@' not in line and 'http' not in line`
IsNameLine(secs, line) ==
    /\ secs["name"] = <<>>
    /\ ~Contains(line, <<"@">>)
    /\ ~Contains(line, <<"http">>)

\* IsContactLine without the test for '|'.
IsContactLineWithoutBar(line) ==
    \/ Contains(line, <<"@">>)
    \/ Contains(line, <<"Phone">>)
    \/ Contains(line, <<"Email">>)

\* `'@' in line or '|' in line or ('Phone' in line or 'Email' in line)`
IsContactLine(line) ==
    \/ Contains(line, <<"@">>)
    \/ Contains(line, <<"|">>)
    \/ Contains(line, <<"Phone">>)
    \/ Contains(line, <<"Email">>)

\* `line.replace('‚Ä¢', '').strip()`
CleanContact(line) == Strip(Replace(line, BULLET_ARTIFACT, <<>>))

\* `if current_section and current_content:
\*      sections[current_section] = '\n'.join(current_content)`
Flush(secs, cur, content) ==
    IF cur # "None" /\ content # <<>>
    THEN [secs EXCEPT ![cur] = JoinLines(content)]
    ELSE secs

ParserInit ==
    /\ lines = <<>>
    /\ sections = EmptySections
    /\ current_section = "None"
    /\ current_content = <<>>
    /\ pc = "loop"
    /\ story = <<>>

\* One iteration of `for line in lines`, on the raw line `raw`.
Reading(raw) ==
    /\ pc = "loop"
    /\ Len(lines) < MaxLines
    /\ lines' = Append(lines, raw)

\* `continue`: an empty or brace-led line.
SkipLine(raw) ==
    /\ Reading(raw)
    /\ IsSkipped(Strip(raw))
    /\ UNCHANGED <<sections, current_section, current_content, pc, story>>

\* HeaderLine keeping the header line itself as the first content line.
HeaderLineKeepsText(raw) ==
    LET line == Strip(raw) IN
    /\ Reading(raw)
    /\ ~IsSkipped(line)
    /\ HeaderOf(line) # "None"
    /\ sections' = Flush(sections, current_section, current_content)
    /\ current_section' = HeaderOf(line)
    /\ current_content' = <<line>>
    /\ UNCHANGED <<pc, story>>

\* A header line: flush, move the cursor, reset the accumulator.
HeaderLine(raw) ==
    LET line == Strip(raw) IN
    /\ Reading(raw)
    /\ ~IsSkipped(line)
    /\ HeaderOf(line) # "None"
    /\ sections' = Flush(sections, current_section, current_content)
    /\ current_section' = HeaderOf(line)
    /\ current_content' = <<>>
    /\ UNCHANGED <<pc, story>>

\* `sections['name'] = line`
NameLine(raw) ==
    LET line == Strip(raw) IN
    /\ Reading(raw)
    /\ ~IsSkipped(line)
    /\ HeaderOf(line) = "None"
    /\ IsNameLine(sections, line)
    /\ sections' = [sections EXCEPT !["name"] = line]
    /\ UNCHANGED <<current_section, current_content, pc, story>>

\* ContactLine keeping the first contact line instead of the last.
ContactLineFirstWins(raw) ==
    LET line == Strip(raw) IN
    /\ Reading(raw)
    /\ ~IsSkipped(line)
    /\ HeaderOf(line) = "None"
    /\ ~IsNameLine(sections, line)
    /\ IsContactLine(line)
    /\ sections' = IF sections["contact"] = <<>>
                   THEN [sections EXCEPT !["contact"] = CleanContact(line)]
                   ELSE sections
    /\ UNCHANGED <<current_section, current_content, pc, story>>

\* `sections['contact'] = line.replace('‚Ä¢', '').strip()`
ContactLine(raw) ==
    LET line == Strip(raw) IN
    /\ Reading(raw)
    /\ ~IsSkipped(line)
    /\ HeaderOf(line) = "None"
    /\ ~IsNameLine(sections, line)
    /\ IsContactLine(line)
    /\ sections' = [sections EXCEPT !["contact"] = CleanContact(line)]
    /\ UNCHANGED <<current_section, current_content, pc, story>>

\* `current_content.append(line)`
ContentLine(raw) ==
    LET line == Strip(raw) IN
    /\ Reading(raw)
    /\ ~IsSkipped(line)
    /\ HeaderOf(line) = "None"
    /\ ~IsNameLine(sections, line)
    /\ ~IsContactLine(line)
    /\ current_section # "None"
    /\ current_content' = Append(current_content, line)
    /\ UNCHANGED <<sections, current_section, pc, story>>

\* `sections['additional'] += line + '\n'`
AdditionalLine(raw) ==
    LET line == Strip(raw) IN
    /\ Reading(raw)
    /\ ~IsSkipped(line)
    /\ HeaderOf(line) = "None"
    /\ ~IsNameLine(sections, line)
    /\ ~IsContactLine(line)
    /\ current_section = "None"
    /\ sections' = [sections EXCEPT
                       !["additional"] = sections["additional"] \o line \o <<NL>>]
    /\ UNCHANGED <<current_section, current_content, pc, story>>

\* End of the loop: the last flush and `return sections`.  ''.split('\n') is
\* [''], so a text has at least one line.
ParseReturn ==
    /\ pc = "loop"
    /\ Len(lines) >= 1
    /\ sections' = Flush(sections, current_section, current_content)
    /\ pc' = "parsed"
    /\ UNCHANGED <<lines, current_section, current_content, story>>

\* =====================================================================
\* PDFCreator._build_body_sections / _format_section / _format_skills_content
\* =====================================================================

\* `line and (line.startswith('‚Ä¢') or line.startswith('-') or ':' in line)`
IsSkillsBullet(line) ==
    /\ line # <<>>
    /\ \/ StartsWith(line, BULLET_ARTIFACT)
       \/ StartsWith(line, <<"-">>)
       \/ Contains(line, <<":">>)

\* The loop of _format_skills_content over the lines ls: one paragraph, the
\* stripped line, for each line that passes the bullet test.
RECURSIVE SkillsParagraphs(_)
SkillsParagraphs(ls) ==
    IF ls = <<>> THEN <<>>
    ELSE LET line == Strip(Head(ls)) IN
         (IF IsSkillsBullet(line) THEN <<line>> ELSE <<>>)
         \o SkillsParagraphs(Tail(ls))

\* _format_skills_content(content)
FormatSkillsContent(content) == SkillsParagraphs(SplitLines(content))

\* The 'skills' turn of the loop of _build_body_sections: the section is
\* rendered when its stripped content is longer than 5 characters.
FormatSkillsSection ==
    /\ pc = "parsed"
    /\ LET content == Strip(sections["skills"]) IN
       story' = IF content # <<>> /\ StrLen(content) > 5
                THEN FormatSkillsContent(content)
                ELSE <<>>
    /\ pc' = "rendered"
    /\ UNCHANGED <<lines, sections, current_section, current_content>>


\* =====================================================================
\* DataManager: data/job_applications.json and get_job_applications
\* =====================================================================

\* Most entries of the array in a pre-existing applications file.
MaxEntries == 3

\* JSON values an array entry can be: an object (a dict once loaded) with
\* its fields, or a scalar with its text.
JsonObject(fields) == [type |-> "object", text |-> "", fields |-> fields]
JsonString(text)   == [type |-> "string", text |-> text, fields |-> <<>>]
JsonNumber(text)   == [type |-> "number", text |-> text, fields |-> <<>>]
JsonBool(text)     == [type |-> "bool", text |-> text, fields |-> <<>>]

\* What a call returning True or False leaves in result.value, which is a
\* tuple of JSON values for every call.
Returned(text) == <<JsonBool(text)>>

Entries ==
    { JsonObject("company_name" :> "A"),
      JsonObject("company_name" :> "B" @@ "status" :> "pending"),
      JsonString("garbage"),
      JsonNumber("42") }

\* What the file can hold.  kind: "missing" (no such file), "empty" (zero
\* bytes), "undecodable" (bytes that are not text in the encoding open()
\* reads with), "malformed" (text that is not JSON), "json" (a JSON value of
\* top-level type top; items are the elements of an array).
FileOf(kind, top, items) == [kind |-> kind, top |-> top, items |-> items]
Missing     == FileOf("missing", "none", <<>>)
ZeroBytes   == FileOf("empty", "none", <<>>)
Undecodable == FileOf("undecodable", "none", <<>>)
Malformed   == FileOf("malformed", "none", <<>>)

\* `json.dump(value, f)` for a list: the file then holds that array.
JsonDumpList(items) == FileOf("json", "array", items)

FileContents ==
    {Missing, ZeroBytes, Undecodable, Malformed}
    \cup {FileOf("json", top, <<>>) : top \in {"object", "string", "number", "null"}}
    \cup {JsonDumpList(items) :
              items \in UNION {[1..n -> Entries] : n \in 0..MaxEntries}}

\* DataManager._ensure_data_directory on the applications file.
EnsureDataDirectory(disk) ==
    IF disk.kind = "missing" THEN JsonDumpList(<<>>) ELSE disk

\* `json.load(f)` of an existing, non-empty file: the exception it raises
\* ("None" when it returns) and the value it returns.
JsonLoad(file) ==
    CASE file.kind = "undecodable" ->
             [raised |-> "UnicodeDecodeError", top |-> "none", items |-> <<>>]
      [] file.kind = "malformed" ->
             [raised |-> "JSONDecodeError", top |-> "none", items |-> <<>>]
      [] OTHER ->
             [raised |-> "None", top |-> file.top, items |-> file.items]

\* `isinstance(item, dict)`
IsDict(item) == item.type = "object"

\* CleanData inserting each kept entry at the front.
RECURSIVE CleanDataNewestFirst(_)
CleanDataNewestFirst(data) ==
    IF data = <<>> THEN <<>>
    ELSE CleanDataNewestFirst(Tail(data))
         \o (IF IsDict(Head(data)) THEN <<Head(data)>> ELSE <<>>)

\* The loop `for item in data` that fills clean_data.
RECURSIVE CleanData(_)
CleanData(data) ==
    IF data = <<>> THEN <<>>
    ELSE (IF IsDict(Head(data)) THEN <<Head(data)>> ELSE <<>>)
         \o CleanData(Tail(data))

\* The notices the same loop prints.
RECURSIVE SkipNotices(_)
SkipNotices(data) ==
    IF data = <<>> THEN <<>>
    ELSE (IF IsDict(Head(data)) THEN <<>> ELSE <<"skipping corrupted">>)
         \o SkipNotices(Tail(data))

\* DataManager.get_job_applications on the file `file`: the file it leaves,
\* the list it returns and the notices it prints.
GetJobApplicationsOn(file) ==
    IF file.kind = "missing"
    THEN [file |-> JsonDumpList(<<>>), value |-> <<>>,
          printed |-> <<"doesn't exist">>]
    ELSE IF file.kind = "empty"
    THEN [file |-> JsonDumpList(<<>>), value |-> <<>>,
          printed |-> <<"is empty">>]
    ELSE
    LET loaded == JsonLoad(file) IN
    IF loaded.raised = "JSONDecodeError"
    THEN [file |-> JsonDumpList(<<>>), value |-> <<>>,
          printed |-> <<"JSON decode error">>]
    ELSE IF loaded.raised # "None"
    THEN [file |-> file, value |-> <<>>, printed |-> <<"Error loading">>]
    ELSE
    LET is_list    == loaded.top = "array"
        data       == IF is_list THEN loaded.items ELSE <<>>
        clean_data == CleanData(data)
        dirty      == Len(clean_data) # Len(data)
    IN  [file    |-> IF dirty THEN JsonDumpList(clean_data) ELSE file,
         value   |-> clean_data,
         printed |-> (IF is_list THEN <<>> ELSE <<"invalid data, resetting">>)
                     \o SkipNotices(data)
                     \o (IF dirty THEN <<"Cleaned">> ELSE <<>>)]

NoResult == [op |-> "none", value |-> <<>>]

StoreInit ==
    /\ \E disk \in FileContents : applications_file = EnsureDataDirectory(disk)
    /\ result = NoResult
    /\ printed = <<>>

\* A call of get_job_applications.
GetJobApplications ==
    LET out == GetJobApplicationsOn(applications_file) IN
    /\ applications_file' = out.file
    /\ result' = [op |-> "get_job_applications", value |-> out.value]
    /\ printed' = out.printed

\* The file is removed from outside the program, the case lines 76-80 of
\* get_job_applications provide for.
ExternalRemove ==
    /\ applications_file.kind # "missing"
    /\ applications_file' = Missing
    /\ UNCHANGED <<result, printed>>

\* ---------------------------------------------------------------------
\* The application records main.py stores and the operations on them
\* ---------------------------------------------------------------------

MaxRecords == 3

\* The entries of the status selectbox of show_job_applications_page.
StatusOptionsWithWithdrawn ==
    {"pending", "interview", "rejected", "offered", "accepted", "withdrawn"}

StatusOptions == {"pending", "interview", "rejected", "offered", "accepted"}

\* What the user types as the company name.
Companies == {"A"}

\* `datetime.now().isoformat()`: the instants a call can fall on.
Timestamps == {"t1"}

\* The app_data main.py builds after a document is generated (the position,
\* the job description and the document list are further fields that no
\* store operation reads or writes again).
AppData(company_name, now) ==
    JsonObject("company_name" :> company_name
               @@ "application_date" :> now
               @@ "status" :> "pending")

\* `d[key] = value` on a dict.
SetItem(fields, key, value) ==
    [k \in DOMAIN fields \cup {key} |-> IF k = key THEN value ELSE fields[k]]

\* The two assignments replaced by a fresh dict of the two keys.
WithStatusDroppingFields(app, new_status, now) ==
    JsonObject("status" :> new_status @@ "updated_at" :> now)

\* The two assignments of update_application_status on one record.
WithStatus(app, new_status, now) ==
    JsonObject(SetItem(SetItem(app.fields, "status", new_status),
                       "updated_at", now))

\* The guard admitting the index one past the end.
InRangeInclusive(app_index, applications) ==
    0 <= app_index /\ app_index <= Len(applications)

\* `0 <= app_index < len(applications)`
InRange(app_index, applications) ==
    0 <= app_index /\ app_index < Len(applications)

\* The assignments applied to every record of the list.
SetStatusEverywhere(applications, app_index, new_status, now) ==
    [j \in DOMAIN applications |-> WithStatus(applications[j], new_status, now)]

\* `applications[app_index][...] = ...` on the list (Python counts from 0).
SetStatus(applications, app_index, new_status, now) ==
    [j \in DOMAIN applications |->
        IF j = app_index + 1
        THEN WithStatus(applications[j], new_status, now)
        ELSE applications[j]]

\* pop() without its argument: the last record is removed.
PopLast(applications, app_index) ==
    SubSeq(applications, 1, Len(applications) - 1)

\* `applications.pop(app_index)`
Pop(applications, app_index) ==
    [j \in 1..(Len(applications) - 1) |->
        IF j <= app_index THEN applications[j] ELSE applications[j + 1]]

\* save_job_application inserting the record at the front of the list.
SaveJobApplicationOnFront(file, application_data) ==
    LET got == GetJobApplicationsOn(file) IN
    [file    |-> JsonDumpList(<<application_data>> \o got.value),
     value   |-> Returned("True"),
     printed |-> got.printed]

\* DataManager.save_job_application on the file `file`.
SaveJobApplicationOn(file, application_data) ==
    LET got          == GetJobApplicationsOn(file)
        applications == Append(got.value, application_data)
    IN  [file    |-> JsonDumpList(applications),
         value   |-> Returned("True"),
         printed |-> got.printed]

\* DataManager.update_application_status on the file `file`.
UpdateApplicationStatusOn(file, app_index, new_status, now) ==
    LET got == GetJobApplicationsOn(file) IN
    IF InRange(app_index, got.value)
    THEN [file    |-> JsonDumpList(SetStatus(got.value, app_index,
                                             new_status, now)),
          value   |-> Returned("True"),
          printed |-> got.printed]
    ELSE [file |-> got.file, value |-> Returned("False"), printed |-> got.printed]

\* DataManager.delete_application on the file `file`.
DeleteApplicationOn(file, app_index) ==
    LET got == GetJobApplicationsOn(file) IN
    IF InRange(app_index, got.value)
    THEN [file    |-> JsonDumpList(Pop(got.value, app_index)),
          value   |-> Returned("True"),
          printed |-> got.printed]
    ELSE [file |-> got.file, value |-> Returned("False"), printed |-> got.printed]

\* The indexes a caller passes: those of the list, one before and one after.
AppIndexes == -1..MaxRecords

\* The applications file a session can start on: none yet, or one left
\* damaged by an earlier session.
RecordlessDisks ==
    {Missing, ZeroBytes, Malformed, JsonDumpList(<<JsonString("garbage")>>)}

AppsInit ==
    /\ \E disk \in RecordlessDisks :
           applications_file = EnsureDataDirectory(disk)
    /\ result = NoResult
    /\ printed = <<>>

\* main.py saving the record of a generated document.
SaveJobApplication(company_name) ==
    /\ Len(GetJobApplicationsOn(applications_file).value) < MaxRecords
    /\ \E now \in Timestamps :
         LET out == SaveJobApplicationOn(applications_file,
                                         AppData(company_name, now))
         IN  /\ applications_file' = out.file
             /\ result' = [op |-> "save_job_application", value |-> out.value]
             /\ printed' = out.printed

\* The Update button of the tracker page, and any other caller's index.
UpdateApplicationStatus(app_index, new_status) ==
    \E now \in Timestamps :
      LET out == UpdateApplicationStatusOn(applications_file, app_index,
                                           new_status, now)
      IN  /\ applications_file' = out.file
          /\ result' = [op |-> "update_application_status",
                        value |-> out.value]
          /\ printed' = out.printed

\* A call of delete_application.
DeleteApplication(app_index) ==
    LET out == DeleteApplicationOn(applications_file, app_index) IN
    /\ applications_file' = out.file
    /\ result' = [op |-> "delete_application", value |-> out.value]
    /\ printed' = out.printed

\* ---------------------------------------------------------------------
\* get_application_stats
\* ---------------------------------------------------------------------

\* str.lower() on a status.
LowerStatus(status) ==
    CASE status = "Interview" -> "interview"
      [] OTHER                -> status

\* The keys of the dict literal `stats = {...}`.
StatsKeys ==
    {"total_applications", "pending", "interview", "rejected", "offered",
     "accepted"}

\* The status as it is stored, without lower().
StatusOfAsStored(app) ==
    IF "status" \in DOMAIN app.fields THEN app.fields["status"] ELSE "pending"

\* `app.get('status', 'pending').lower()`
StatusOf(app) ==
    LowerStatus(IF "status" \in DOMAIN app.fields THEN app.fields["status"]
                ELSE "pending")

\* DataManager.get_application_stats on the file `file`: every entry the
\* read returns is a dict, and `if status in stats` tests all six keys.
GetApplicationStatsOn(file) ==
    LET got          == GetJobApplicationsOn(file)
        applications == got.value
        stats        ==
            [k \in StatsKeys |->
                (IF k = "total_applications" THEN Len(applications) ELSE 0)
                + Cardinality({j \in 1..Len(applications) :
                                   StatusOf(applications[j]) = k})]
    IN  [file    |-> got.file,
         value   |-> <<JsonObject(stats)>>,
         printed |-> got.printed]

\* Records an earlier version or a hand edit left in the file: one without
\* a status, one with a capitalised status, one with a status that is not
\* among the five.
LegacyRecords ==
    << JsonObject("company_name" :> "A"),
       JsonObject("company_name" :> "A" @@ "status" :> "Interview"),
       JsonObject("company_name" :> "A" @@ "status" :> "withdrawn") >>

\* The applications file a session of the statistics page can start on.
StatsDisks ==
    {Missing, JsonDumpList(LegacyRecords),
     JsonDumpList(SubSeq(LegacyRecords, 2, 2))}

StatsInit ==
    /\ \E disk \in StatsDisks : applications_file = EnsureDataDirectory(disk)
    /\ result = NoResult
    /\ printed = <<>>

\* The statistics panel of the home page and of the tracker page.
GetApplicationStats ==
    LET out == GetApplicationStatsOn(applications_file) IN
    /\ applications_file' = out.file
    /\ result' = [op |-> "get_application_stats", value |-> out.value]
    /\ printed' = out.printed

\* ---------------------------------------------------------------------
\* The user profile: save_user_profile and load_user_profile
\* ---------------------------------------------------------------------

\* Python's None as a JSON value, and a call returning it.
JsonNull == [type |-> "null", text |-> "None", fields |-> <<>>]
PyNone   == <<JsonNull>>

\* What the profile form accepts: name and email are required, the other
\* fields may be left empty.
Names       == {<<"John", " ", "Doe">>, <<"Jane">>, <<"Ada">>}
Email       == <<"jd", "@", "x">>
Phones      == {<<>>, <<"555">>}
SkillsTexts == {<<>>, <<"Python">>, <<"Python", ",", " ", "SQL">>}
Experiences == {<<>>, <<"5", " ", "years">>}
Educations  == {<<>>, <<"BSc">>}

\* The profile_data main.py builds from the form (current_title, linkedin
\* and the updated_at stamp are further fields no generator substitutes).
ProfileData(name, phone, skills, experience, education) ==
    JsonObject("name" :> name
               @@ "email" :> Email
               @@ "phone" :> phone
               @@ "location" :> <<>>
               @@ "skills" :> skills
               @@ "experience" :> experience
               @@ "education" :> education)

Profiles ==
    {ProfileData(n, p, s, x, e) :
        n \in Names, p \in Phones, s \in SkillsTexts,
        x \in Experiences, e \in Educations}

\* `json.dump(value, f)` for a dict: the file then holds that object.
JsonDumpDict(object) == FileOf("json", "object", <<object>>)

\* DataManager._ensure_data_directory on the profiles file.
EnsureProfilesFile(disk) ==
    IF disk.kind = "missing" THEN JsonDumpDict(JsonObject(<<>>)) ELSE disk

\* DataManager.save_user_profile on the file `file`.
SaveUserProfileOn(file, profile_data) ==
    [file    |-> JsonDumpDict(profile_data),
     value   |-> Returned("True"),
     printed |-> <<>>]

\* `bool(data)` of what json.load returned from the file.
Truthy(file) ==
    /\ file.items # <<>>
    /\ file.top = "object" => file.items[1].fields # <<>>

\* load_user_profile returning whatever the file holds, empty or not.
LoadUserProfileOnAnyData(file) ==
    IF file.kind # "json"
    THEN [value |-> PyNone, printed |-> <<"Error loading profile">>]
    ELSE [value |-> file.items, printed |-> <<>>]

\* DataManager.load_user_profile on the file `file`: open() or json.load
\* raise on a file that is missing, empty or not JSON.
LoadUserProfileOn(file) ==
    IF file.kind # "json"
    THEN [value |-> PyNone, printed |-> <<"Error loading profile">>]
    ELSE [value   |-> IF Truthy(file) THEN file.items ELSE PyNone,
          printed |-> <<>>]

\* The profiles file a session can start on: none yet, or one an
\* interrupted write left empty or cut short.
ProfileDisks == {Missing, ZeroBytes, Malformed}

ProfileInit ==
    /\ \E disk \in ProfileDisks : profiles_file = EnsureProfilesFile(disk)
    /\ saved = <<>>

\* The Save Profile button.
SaveUserProfile(profile_data) ==
    LET out == SaveUserProfileOn(profiles_file, profile_data) IN
    /\ profiles_file' = out.file
    /\ saved' = <<profile_data>>
    /\ result' = [op |-> "save_user_profile", value |-> out.value]
    /\ printed' = out.printed
    /\ UNCHANGED applications_file

\* A page loading the profile.
LoadUserProfile ==
    LET out == LoadUserProfileOn(profiles_file) IN
    /\ result' = [op |-> "load_user_profile", value |-> out.value]
    /\ printed' = out.printed
    /\ UNCHANGED <<applications_file, profiles_file, saved>>

\* =====================================================================
\* AIGenerator: generate_resume and generate_cover_letter
\* =====================================================================

MaxRequests == 3

\* A run of n spaces.
Spaces(n) == [k \in 1..n |-> " "]

\* The real bullet character, one chunk.
BULLET == "U2022"

\* The code fence of three backquotes, one chunk.
FENCE == "FENCE"

\* `d.get(key, default)` on a loaded profile.
Get(profile, key, default) ==
    IF key \in DOMAIN profile.fields THEN profile.fields[key] ELSE default

\* The characters of one chunk.
Chars(c) ==
    CASE c = "Python" -> <<"P", "y", "t", "h", "o", "n">>
      [] c = "SQL"    -> <<"S", "Q", "L">>
      [] OTHER        -> <<c>>

\* The characters of a text, which is what iterating over a str yields.
RECURSIVE CharsOf(_)
CharsOf(s) ==
    IF s = <<>> THEN <<>>
    ELSE IF Len(s) = 1 THEN Chars(s[1])
    ELSE LET half == Len(s) \div 2 IN
         CharsOf(SubSeq(s, 1, half)) \o CharsOf(SubSeq(s, half + 1, Len(s)))

\* `', '.join(items)`
RECURSIVE JoinComma(_)
JoinComma(items) ==
    IF items = <<>> THEN <<>>
    ELSE IF Len(items) = 1 THEN <<items[1]>>
    ELSE <<items[1], ",", " ">> \o JoinComma(Tail(items))

\* AIGenerator._generate_resume_template
GenerateResumeTemplate(profile, job_description) ==
    LET name       == Get(profile, "name", <<"Your", " ", "Name">>)
        email      == Get(profile, "email", <<"email", "@", "example.com">>)
        phone      == Get(profile, "phone", <<"Phone">>)
        skills     == Get(profile, "skills",
                          <<"Skills", " ", "not", " ", "specified">>)
        experience == Get(profile, "experience",
                          <<"Experience", " ", "not", " ", "specified">>)
        education  == Get(profile, "education",
                          <<"Education", " ", "not", " ", "specified">>)
    IN  Strip(
          <<NL>> \o Spaces(8) \o name
          \o <<NL>> \o Spaces(8) \o email \o <<" ", "|", " ">> \o phone
          \o <<NL, NL>> \o Spaces(8) \o <<"PROFESSIONAL", " ", "SUMMARY">>
          \o <<NL>> \o Spaces(8)
          \o <<"Experience", "d", " ", "professional", " ", "with", " ",
               "skills", " ", "in", " ">>
          \o skills \o <<".", " ">>
          \o <<NL>> \o Spaces(8)
          \o <<"Seeking", " ", "to", " ", "leverage", " ", "expertise",
               " ", "in", " ", "a", " ", "challenging", " ", "new", " ",
               "role.">>
          \o <<NL, NL>> \o Spaces(8) \o <<"TECHNICAL", " ", "SKILLS">>
          \o <<NL>> \o Spaces(8) \o <<BULLET, " ">> \o skills
          \o <<NL, NL>> \o Spaces(8) \o <<"PROFESSIONAL", " ", "EXPERIENCE">>
          \o <<NL>> \o Spaces(8) \o <<BULLET, " ">> \o experience
          \o <<NL, NL>> \o Spaces(8) \o <<"EDUCATION">>
          \o <<NL>> \o Spaces(8) \o <<BULLET, " ">> \o education
          \o <<NL>> \o Spaces(8))

\* AIGenerator._generate_cover_letter_template: `', '.join(...)` runs over
\* the characters of a skills text, and over the one-element default list
\* when the profile has no skills key.
GenerateCoverLetterTemplate(profile, company_name, position_title, job_description) ==
    LET name       == Get(profile, "name", <<"Your", " ", "Name">>)
        skills     == IF "skills" \in DOMAIN profile.fields
                      THEN JoinComma(CharsOf(profile.fields["skills"]))
                      ELSE <<"Python">>
        experience == Get(profile, "experience",
                          <<"several", " ", "years", " ", "of", " ",
                            "experience">>)
    IN  Strip(
          <<NL>> \o Spaces(4) \o <<"Dear", " ", "Hiring", " ", "Manager", ",">>
          \o <<NL, NL>> \o Spaces(4)
          \o <<"I", " ", "am", " ", "writing", " ", "to", " ", "express",
               " ", "my", " ", "interest", " ", "in", " ", "the", " ">>
          \o position_title \o <<" ", "position", " ", "at", " ">>
          \o company_name
          \o <<".", " ", "With", " ", "my", " ", "background", " ", "in",
               " ">>
          \o skills
          \o <<",", " ", "I", " ", "am", " ", "confident", " ", "in", " ",
               "my", " ", "ability", " ", "to", " ", "contribute", " ",
               "effectively", " ", "to", " ", "your", " ", "team.">>
          \o <<NL, NL>> \o Spaces(4)
          \o <<"My", " ", "experience", " ", "includes", " ">>
          \o experience
          \o <<",", " ", "and", " ", "I", " ", "have", " ", "a", " ",
               "proven", " ", "track", " ", "record", " ", "of", " ",
               "solving", " ", "complex", " ", "problems", " ", "and", " ",
               "delivering", " ", "high-quality", " ", "results.">>
          \o <<NL, NL>> \o Spaces(4)
          \o <<"Thank", " ", "you", " ", "for", " ", "considering", " ",
               "my", " ", "application.", " ", "I", " ", "look", " ",
               "forward", " ", "to", " ", "the", " ", "opportunity", " ",
               "to", " ", "discuss", " ", "how", " ", "I", " ", "can", " ",
               "contribute", " ", "to", " ", "your", " ", "organization.">>
          \o <<NL, NL>> \o Spaces(4) \o <<"Sincerely,">>
          \o <<NL>> \o Spaces(4) \o name
          \o <<NL>> \o Spaces(8))

\* str.lower() on one chunk.
Lower(c) ==
    CASE c = "Summary:"    -> "summary:"
      [] c = "Skills:"     -> "skills:"
      [] c = "Experience:" -> "experience:"
      [] c = "Education:"  -> "education:"
      [] c = "TECHNICAL"   -> "technical"
      [] c = "SKILLS"      -> "skills"
      [] c = "EDUCATION"   -> "education"
      [] c = "Note"        -> "note"
      [] c = "Here"        -> "here"
      [] c = "Dear"        -> "dear"
      [] c = "John"        -> "john"
      [] c = "Doe"         -> "doe"
      [] c = "Sincerely,"  -> "sincerely,"
      [] c = "Engineer"    -> "engineer"
      [] OTHER             -> c

\* str.lower()
LowerStr(s) == [k \in 1..Len(s) |-> Lower(s[k])]

\* One chunk without its last character, "" when it has only one.
Chop(c) ==
    CASE c = "Summary:"    -> "Summary"
      [] c = "Skills:"     -> "Skills"
      [] c = "Experience:" -> "Experience"
      [] c = "Education:"  -> "Education"
      [] c = "function"    -> "functio"
      [] c = "resume:"     -> "resume"
      [] c = "EDUCATION"   -> "EDUCATIO"
      [] c = "SKILLS"      -> "SKILL"
      [] OTHER             -> ""

\* `s[:-1]`
DropLastChar(s) ==
    IF s = <<>> THEN <<>>
    ELSE LET c == Chop(s[Len(s)]) IN
         SubSeq(s, 1, Len(s) - 1) \o (IF c = "" THEN <<>> ELSE <<c>>)

\* Position of the first occurrence of p in s, 0 when there is none.
Find(s, p) ==
    IF Contains(s, p)
    THEN CHOOSE k \in 1..Len(s) :
             OccursAt(s, p, k) /\ \A j \in 1..(k - 1) : ~OccursAt(s, p, j)
    ELSE 0

\* s.split(p) for a non-empty p: always at least one element.
RECURSIVE SplitOn(_, _)
SplitOn(s, p) ==
    LET k == Find(s, p) IN
    IF k = 0 THEN <<s>>
    ELSE <<SubSeq(s, 1, k - 1)>> \o SplitOn(SubSeq(s, k + Len(p), Len(s)), p)

\* `s.split(p)[-1]` and `s.split(p)[0]`
AfterLast(s, p)   == SplitOn(s, p)[Len(SplitOn(s, p))]
BeforeFirst(s, p) == SplitOn(s, p)[1]

\* Lines 158-165 of generate_resume: when the completion holds a code
\* fence, the first part between fences that holds no code replaces it.
RemoveCodeBlocks(raw_text) ==
    IF /\ \/ Contains(raw_text, <<"def", " ">>)
          \/ Contains(raw_text, <<FENCE>>)
          \/ Contains(raw_text, <<"print(">>)
       /\ Contains(raw_text, <<FENCE>>)
    THEN LET parts == SplitOn(raw_text, <<FENCE>>)
             free  == {k \in 1..Len(parts) :
                          /\ ~Contains(parts[k], <<"def", " ">>)
                          /\ ~Contains(parts[k], <<"print(">>)
                          /\ ~Contains(parts[k], <<"class", " ">>)}
         IN  IF free = {} THEN raw_text
             ELSE Strip(parts[CHOOSE k \in free : \A j \in free : k <= j])
    ELSE raw_text

\* Lines 186-191: everything before the first line that opens with two
\* asterisks or with the profile's name, or that holds 'Dear', is dropped.
DropPreamble(clean_text, name) ==
    IF Contains(clean_text, <<NL>>)
    THEN LET ls    == SplitLines(clean_text)
             first == {i \in 1..Len(ls) :
                          \/ StartsWith(Strip(ls[i]), <<"**">>)
                          \/ StartsWith(Strip(ls[i]), name)
                          \/ Contains(ls[i], <<"Dear">>)}
         IN  IF first = {} THEN clean_text
             ELSE JoinLines(SubSeq(ls, CHOOSE i \in first :
                                           \A j \in first : i <= j, Len(ls)))
    ELSE clean_text

\* The triggers of line 194, in their order.
Triggers ==
    << <<"this", " ", "code">>,
       <<"note", " ", "that">>,
       <<"recommended", " ", "to", " ", "use">>,
       <<"simple", " ", "implementation">>,
       <<"function">>,
       <<"def", " ">>,
       <<"return", " ">> >>

\* Lines 195-200: at the first trigger of the list that the lowered text
\* holds, the text is cut at the last newline before the trigger's first
\* occurrence; rfind returns -1 when there is no such newline and the slice
\* then drops the last character only.
CutAtTrigger(clean_text) ==
    LET lowered == LowerStr(clean_text)
        hits    == {t \in 1..Len(Triggers) : Contains(lowered, Triggers[t])}
    IN  IF hits = {} THEN clean_text
        ELSE LET t        == CHOOSE t \in hits : \A u \in hits : t <= u
                 k        == Find(lowered, Triggers[t])
                 newlines == {j \in 1..(k - 1) : clean_text[j] = NL}
             IN  IF newlines = {} THEN Strip(DropLastChar(clean_text))
                 ELSE Strip(SubSeq(clean_text, 1,
                                   (CHOOSE j \in newlines :
                                        \A i \in newlines : i <= j) - 1))

\* The text a section of the rebuilt resume is filled with: what follows
\* the last `label` up to the first `next`, or the notice when the text has
\* no `label`.
Extract(clean_text, label, next, notice) ==
    IF Contains(clean_text, <<label>>)
    THEN Strip(BeforeFirst(AfterLast(clean_text, <<label>>), <<next>>))
    ELSE notice

\* Lines 209-230: the f-string that rebuilds the resume.
FormattedResume(profile, clean_text) ==
    LET name     == Get(profile, "name", <<"Your", " ", "Name">>)
        email    == Get(profile, "email", <<"email", "@", "example.com">>)
        phone    == Get(profile, "phone", <<"Phone">>)
        location == Get(profile, "location", <<"Location">>)
        spaced(s) == Replace(s, <<BULLET>>, <<BULLET, " ">>)
    IN  name
        \o <<NL>> \o Spaces(12) \o email \o <<" ", "|", " ">> \o phone
        \o <<" ", "|", " ">> \o location
        \o <<NL, NL>> \o Spaces(12) \o <<"PROFESSIONAL", " ", "SUMMARY">>
        \o <<NL>> \o Spaces(12)
        \o Extract(clean_text, "Summary:", "Skills:",
                   <<"Summary", " ", "not", " ", "available.">>)
        \o <<NL, NL>> \o Spaces(12) \o <<"TECHNICAL", " ", "SKILLS">>
        \o <<NL>> \o Spaces(12)
        \o (IF Contains(clean_text, <<"Skills:">>)
            THEN spaced(Extract(clean_text, "Skills:", "Experience:", <<>>))
            ELSE <<"Skills", " ", "not", " ", "available.">>)
        \o <<NL, NL>> \o Spaces(12) \o <<"PROFESSIONAL", " ", "EXPERIENCE">>
        \o <<NL>> \o Spaces(12)
        \o (IF Contains(clean_text, <<"Experience:">>)
            THEN spaced(Extract(clean_text, "Experience:", "Education:", <<>>))
            ELSE <<"Experience", " ", "not", " ", "available.">>)
        \o <<NL, NL>> \o Spaces(12) \o <<"EDUCATION">>
        \o <<NL>> \o Spaces(12)
        \o Extract(clean_text, "Education:", "}",
                   <<"Education", " ", "not", " ", "available.">>)
        \o <<NL>> \o Spaces(12)

\* Line 233: the characters '{' and '}' are dropped.
RemoveBraces(s) == SelectSeq(s, LAMBDA c : c \notin {"{", "}"})

\* Lines 155-275 of generate_resume on the text of a completion.  Lines
\* 168-180 compute a clean_text that line 183 overwrites, and lines 237-273
\* rework clean_text after the returned formatted_resume was built from it:
\* neither changes what is returned.
ResumeFromCompletion(profile, text) ==
    LET raw_text   == RemoveCodeBlocks(Strip(text))
        clean_text == Strip(CutAtTrigger(
                          DropPreamble(Strip(raw_text),
                                       Get(profile, "name", <<>>))))
    IN  Strip(RemoveBraces(FormattedResume(profile, clean_text)))

\* The closing phrases of line 479.
ClosingSigns ==
    { <<"Sincerely,">>,
      <<"Best", " ", "regards,">>,
      <<"Yours", " ", "truly,">>,
      <<"Kind", " ", "regards,">> }

\* `any(line.startswith(closing) for closing in closing_signs)`
StartsWithClosing(line) == \E c \in ClosingSigns : StartsWith(line, c)

\* Step 2 of generate_cover_letter: a comment wrapper around the text is
\* taken off.
StripCommentWrapper(raw_text) ==
    LET opened == IF StartsWith(raw_text, <<"/*">>)
                  THEN LStrip(Tail(raw_text)) ELSE raw_text
    IN  IF opened # <<>> /\ opened[Len(opened)] = "*/"
        THEN RStrip(SubSeq(opened, 1, Len(opened) - 1)) ELSE opened

\* Step 3: of a text with code fences, the first part that opens with
\* 'Dear' or holds 'Hiring Manager' is kept.
ExtractFencedLetter(raw_text) ==
    IF Contains(raw_text, <<FENCE>>)
    THEN LET parts  == SplitOn(raw_text, <<FENCE>>)
             letter == {k \in 1..Len(parts) :
                           \/ StartsWith(Strip(parts[k]), <<"Dear">>)
                           \/ Contains(parts[k], <<"Hiring", " ", "Manager">>)}
         IN  IF letter = {} THEN raw_text
             ELSE Strip(parts[CHOOSE k \in letter : \A j \in letter : k <= j])
    ELSE raw_text

\* Step 4: lines that open with '#' and are shorter than 80 characters are
\* dropped.
DropCommentLines(raw_text) ==
    Strip(JoinLines(SelectSeq(SplitLines(raw_text),
              LAMBDA line : ~( /\ StartsWith(Strip(line), <<"#">>)
                               /\ StrLen(Strip(line)) < 80 ))))

\* Step 5, the loop over the lines: every line is kept up to and including
\* the first non-empty line that directly follows a closing line.
RECURSIVE KeepUpToSignature(_, _, _)
KeepUpToSignature(rest, final_lines, closing_found) ==
    IF rest = <<>> THEN final_lines
    ELSE LET kept == Append(final_lines, Head(rest)) IN
         IF StartsWithClosing(Strip(Head(rest)))
         THEN KeepUpToSignature(Tail(rest), kept, TRUE)
         ELSE IF /\ closing_found
                 /\ Len(kept) >= 2
                 /\ StartsWithClosing(Strip(kept[Len(kept) - 1]))
                 /\ Strip(kept[Len(kept)]) # <<>>
              THEN kept
              ELSE KeepUpToSignature(Tail(rest), kept, closing_found)

\* Step 6: when the text still holds one of three phrases, it is cut after
\* the line that follows the first closing line that is not the last line.
CutTrailingGarbage(final_text) ==
    IF \/ Contains(final_text, <<"Here", " ", "is", " ", "the", " ",
                                "cover", " ", "letter">>)
       \/ Contains(final_text, <<"This", " ", "code", " ", "defines">>)
       \/ Contains(final_text, <<"Note", " ", "that">>)
    THEN LET ls      == SplitLines(final_text)
             closing == {k \in 1..(Len(ls) - 1) :
                            StartsWithClosing(Strip(ls[k]))}
             end     == IF closing = {} THEN Len(ls)
                        ELSE (CHOOSE k \in closing :
                                  \A j \in closing : k <= j) + 1
         IN  Strip(JoinLines(SubSeq(ls, 1, end)))
    ELSE final_text

\* Lines 452-521 of generate_cover_letter on the text of a completion.
LetterFromCompletion(text) ==
    LET raw_text   == ExtractFencedLetter(StripCommentWrapper(Strip(text)))
        clean_text == DropCommentLines(raw_text)
        final_text == Strip(JoinLines(
                          KeepUpToSignature(SplitLines(clean_text),
                                            <<>>, FALSE)))
    IN  CutTrailingGarbage(final_text)

\* ---------------------------------------------------------------------
\* The calls, their inputs and what the Together AI service answers
\* ---------------------------------------------------------------------

\* The profiles the generator pages load.
GenProfiles ==
    { ProfileData(<<"John", " ", "Doe">>, <<"555">>,
                  <<"Python", ",", " ", "SQL">>, <<"5", " ", "years">>,
                  <<"BSc">>),
      ProfileData(<<"Jane">>, <<>>, <<>>, <<>>, <<>>) }

\* What the user enters on the generator pages.
Jobs ==
    { [company_name |-> <<"Acme">>, position_title |-> <<"Engineer">>,
       job_description |-> <<"Python", " ", "role">>],
      [company_name |-> <<"Initech">>, position_title |-> <<"Engineer">>,
       job_description |-> <<>>] }

\* Texts the completion endpoint can answer a resume prompt with.
ResumeCompletions ==
    { <<>>,
      <<"Summary:", " ", "a", NL, "Skills:", " ", "b", NL, "Experience:",
        " ", "c", NL, "Education:", " ", "d">>,
      <<"Here", " ", "is", " ", "the", " ", "resume:", NL, "John", " ",
        "Doe", NL, "Summary:", " ", "a", NL, "Skills:", " ", BULLET, "b", NL,
        "Experience:", " ", "c", NL, "Education:", " ", "d", " ", "}">>,
      <<"Summary:", " ", "a", NL, "TECHNICAL", " ", "SKILLS", NL,
        "Skills:", " ", "b", NL, "Experience:", " ", "c", NL, "Education:",
        " ", "d">>,
      <<"Summary:", " ", "a", " ", "function">>,
      <<"Summary:", " ", "a", NL, "Skills:", " ", "b", NL, "Note", " ",
        "that", " ", "x">>,
      <<FENCE, NL, "Summary:", " ", "a", NL, FENCE>> }

\* Texts the completion endpoint can answer a cover letter prompt with.
LetterCompletions ==
    { <<"Dear", " ", "Hiring", " ", "Manager", ",", NL, "I", " ", "am",
        " ", "x.", NL, "Sincerely,", NL, "John", " ", "Doe">>,
      <<"Dear", " ", "Hiring", " ", "Manager", ",", NL, "I", " ", "am",
        " ", "x.", NL, "Sincerely,", NL, "John", " ", "Doe", NL, "Note",
        " ", "that", " ", "x">>,
      <<"Dear", " ", "x", NL, "Sincerely,", NL, NL, "John", " ", "Doe", NL,
        "Here", " ", "is", " ", "the", " ", "cover", " ", "letter">>,
      <<"Dear", " ", "x", NL, "Sincerely,", NL, NL, "John", " ", "Doe", NL,
        "P.S.", " ", "call", " ", "me">>,
      <<"/*", " ", "Dear", " ", "x", " ", "*/">>,
      <<FENCE, NL, "Dear", " ", "x", NL, FENCE>>,
      <<"#", " ", "letter", NL, "Dear", " ", "x">> }

\* What one use of the service does: creating the client raises or not;
\* the completion call raises, answers without choices, or answers `text`.
Outcomes(texts) ==
    {[client |-> "raises", response |-> "none", text |-> <<>>]}
    \cup {[client |-> "ok", response |-> r, text |-> <<>>] :
              r \in {"raises", "no choices"}}
    \cup {[client |-> "ok", response |-> "text", text |-> t] : t \in texts}

\* `not api_key` taken as never true.
NoCredentialNever(key) == FALSE

\* `not api_key` on what os.getenv returned.
NoCredential(key) == key = <<>>

\* No call of the generator made yet.
NoCall == [op |-> "none"]

GenInit ==
    /\ api_key \in {<<>>, <<"key">>}
    /\ requests = 0
    /\ call = NoCall
    /\ raised = "None"

\* TOGETHER_API_KEY is set or unset between two calls.
Configure(key) ==
    /\ key # api_key
    /\ api_key' = key
    /\ UNCHANGED <<requests, call, raised, storeVars>>

\* The shape shared by generate_resume and generate_cover_letter: without
\* a credential the template; else the client is created outside the try
\* block, and inside it the completion is requested and post-processed,
\* any exception there leading to the template.
Generate(op, profile, job, outcome, template, processed) ==
    /\ call' = [op |-> op, profile |-> profile, job |-> job, key |-> api_key]
    /\ UNCHANGED <<api_key, applications_file>>
    /\ IF NoCredential(api_key)
       THEN /\ result' = [op |-> op, value |-> template]
            /\ printed' = <<"API key not found">>
            /\ raised' = "None"
            /\ UNCHANGED requests
       ELSE IF outcome.client = "raises"
       THEN /\ result' = [op |-> op, value |-> <<>>]
            /\ printed' = <<>>
            /\ raised' = "Exception"
            /\ UNCHANGED requests
       ELSE /\ requests < MaxRequests
            /\ requests' = requests + 1
            /\ raised' = "None"
            /\ IF outcome.response = "text"
               THEN /\ result' = [op |-> op, value |-> processed]
                    /\ printed' = <<>>
               ELSE /\ result' = [op |-> op, value |-> template]
                    /\ printed' = <<"Error with Together AI">>

\* AIGenerator.generate_resume
GenerateResume(profile, job, outcome) ==
    Generate("generate_resume", profile, job, outcome,
             GenerateResumeTemplate(profile, job.job_description),
             ResumeFromCompletion(profile, outcome.text))

\* AIGenerator.generate_cover_letter
GenerateCoverLetter(profile, job, outcome) ==
    Generate("generate_cover_letter", profile, job, outcome,
             GenerateCoverLetterTemplate(profile, job.company_name,
                                         job.position_title,
                                         job.job_description),
             LetterFromCompletion(outcome.text))

\* ---------------------------------------------------------------------
\* AIGenerator.generate_interview_questions
\* ---------------------------------------------------------------------

\* `[skill.strip() for skill in skills_text.split(',') if skill.strip()]`
SkillsList(skills_text) ==
    LET parts == SplitOn(skills_text, <<",">>) IN
    SelectSeq([k \in 1..Len(parts) |-> Strip(parts[k])],
              LAMBDA skill : skill # <<>>)

\* `skills_list[0] if skills_list else default`
FirstSkill(skills_list, default) ==
    IF skills_list # <<>> THEN skills_list[1] ELSE default

\* `skills_list[i % len(skills_list)]` (Python counts from 0).
SkillAt(skills_list, i) == skills_list[(i % Len(skills_list)) + 1]

\* The first two general templates, filled in.
GeneralQuestions(skills_list, position_title) ==
    << <<"Tell", " ", "me", " ", "about", " ", "yourself", " ", "and", " ",
         "your", " ", "background", " ", "in", " ">>
           \o LowerStr(position_title) \o <<".">>,
       <<"Why", " ", "are", " ", "you", " ", "interested", " ", "in", " ",
         "this", " ">>
           \o LowerStr(position_title) \o <<" ", "role?">> >>

\* The technical questions left out.
TechnicalQuestionsNever(skills_list) == <<>>

\* The first three technical templates, filled in, when there is a skill.
TechnicalQuestions(skills_list) ==
    IF skills_list = <<>> THEN <<>>
    ELSE << <<"Explain", " ", "your", " ", "experience", " ", "with", " ">>
                \o SkillAt(skills_list, 0) \o <<".">>,
            <<"How", " ", "would", " ", "you", " ", "approach", " ">>
                \o SkillAt(skills_list, 1) \o <<" ", "implementation?">>,
            <<"Describe", " ", "a", " ", "challenging", " ">>
                \o SkillAt(skills_list, 2)
                \o <<" ", "project", " ", "you", " ", "worked", " ", "on.">> >>

\* The first three behavioral templates, filled in.
BehavioralQuestions(skills_list) ==
    << <<"Describe", " ", "a", " ", "time", " ", "when", " ", "you", " ",
         "had", " ", "to", " ", "learn", " ", "a", " ", "new", " ">>
           \o FirstSkill(skills_list, <<"technology">>)
           \o <<" ", "quickly.">>,
       <<"Tell", " ", "me", " ", "about", " ", "a", " ", "challenging",
         " ", "project", " ", "and", " ", "how", " ", "you", " ",
         "overcame", " ", "obstacles.">>,
       <<"How", " ", "do", " ", "you", " ", "handle", " ", "tight", " ",
         "deadlines", " ", "and", " ", "pressure?">> >>

\* The three questions about the position.
PositionQuestions(position_title) ==
    << <<"What", " ", "interests", " ", "you", " ", "most", " ", "about",
         " ", "this", " ">>
           \o position_title \o <<" ", "role?">>,
       <<"How", " ", "do", " ", "you", " ", "see", " ", "yourself", " ",
         "contributing", " ", "to", " ", "our", " ">>
           \o position_title \o <<" ", "team?">>,
       <<"What", " ", "are", " ", "your", " ", "long-term", " ", "career",
         " ", "goals", " ", "in", " ">>
           \o LowerStr(position_title) \o <<"?">> >>

\* The list the except branch returns.
DefaultQuestions ==
    << <<"Tell", " ", "me", " ", "about", " ", "your", " ", "background",
         " ", "and", " ", "experience.">>,
       <<"Why", " ", "are", " ", "you", " ", "interested", " ", "in", " ",
         "this", " ", "position?">>,
       <<"What", " ", "are", " ", "your", " ", "key", " ", "strengths?">>,
       <<"How", " ", "do", " ", "you", " ", "handle", " ", "challenging",
         " ", "situations?">>,
       <<"Where", " ", "do", " ", "you", " ", "see", " ", "yourself", " ",
         "in", " ", "5", " ", "years?">> >>

\* `questions[:10]`
FirstTen(questions) ==
    SubSeq(questions, 1, IF Len(questions) < 10 THEN Len(questions) ELSE 10)

\* generate_interview_questions on a profile whose skills value has the
\* type skills_type: a str as the profile form saves it, or a list as a
\* hand-edited profile file can hold (split is no method of a list, and the
\* AttributeError is caught).
GenerateInterviewQuestionsOn(profile, skills_type, position_title) ==
    IF "skills" \in DOMAIN profile.fields /\ skills_type # "str"
    THEN [value   |-> DefaultQuestions,
          printed |-> <<"Error generating interview questions">>]
    ELSE LET skills_list == SkillsList(Get(profile, "skills", <<>>)) IN
         [value   |-> FirstTen(GeneralQuestions(skills_list, position_title)
                               \o TechnicalQuestions(skills_list)
                               \o BehavioralQuestions(skills_list)
                               \o PositionQuestions(position_title)),
          printed |-> <<>>]

\* The profiles the interview page loads: the generator pages' profiles,
\* one with a single skill and one whose skills text holds no skill.
QuestionProfiles ==
    GenProfiles
    \cup { ProfileData(<<"Ada">>, <<>>, <<"Python">>, <<>>, <<>>),
           ProfileData(<<"Ada">>, <<>>, <<" ", ",", " ">>, <<>>, <<>>) }

\* The Generate button of the interview page.
GenerateInterviewQuestions(profile, skills_type, position_title) ==
    LET out == GenerateInterviewQuestionsOn(profile, skills_type,
                                            position_title)
    IN  /\ call' = [op |-> "generate_interview_questions",
                    profile |-> profile,
                    job |-> [company_name |-> <<>>,
                             position_title |-> position_title,
                             job_description |-> <<>>],
                    key |-> api_key, skills_type |-> skills_type]
        /\ result' = [op |-> "generate_interview_questions",
                      value |-> out.value]
        /\ printed' = out.printed
        /\ raised' = "None"
        /\ UNCHANGED <<api_key, requests, applications_file>>

\* ---------------------------------------------------------------------
\* Two sessions inside save_job_application at once
\* ---------------------------------------------------------------------

\* Most save_job_application calls the sessions begin.
MaxSaves == 3

\* The sessions (two browser tabs on the same data directory), each named
\* after the company whose record it saves.
Writers == {"A", "B"}

\* The list written being the file's list as it is at the time of writing.
DumpedAfterReread(file, applications, application_data) ==
    Append(GetJobApplicationsOn(file).value, application_data)

\* `applications.append(application_data)`: the list json.dump writes is the
\* one the call read, with the new record behind it.
Dumped(file, applications, application_data) ==
    Append(applications, application_data)

Idle == [pc |-> "idle", applications |-> <<>>]

RaceIdle ==
    /\ writers = [w \in Writers |-> Idle]
    /\ saves = 0
    /\ stale = 0

\* Calls begun so far: those that returned and those between read and write.
Begun == saves + Cardinality({w \in Writers : writers[w].pc = "read"})

\* `applications = self.get_job_applications()` in session w.
SaveRead(w) ==
    LET got == GetJobApplicationsOn(applications_file) IN
    /\ writers[w].pc = "idle"
    /\ Begun < MaxSaves
    /\ applications_file' = got.file
    /\ printed' = got.printed
    /\ writers' = [writers EXCEPT ![w] = [pc |-> "read",
                                          applications |-> got.value]]
    /\ UNCHANGED <<result, saves, stale>>

\* The append, `json.dump(applications, f)` and `return True` in session w.
SaveWrite(w) ==
    /\ writers[w].pc = "read"
    /\ \E now \in Timestamps :
         applications_file' =
             JsonDumpList(Dumped(applications_file, writers[w].applications,
                                 AppData(w, now)))
    /\ result' = [op |-> "save_job_application", value |-> Returned("True")]
    /\ writers' = [writers EXCEPT ![w] = Idle]
    /\ saves' = saves + 1
    /\ stale' = IF writers[w].applications
                     # GetJobApplicationsOn(applications_file).value
                THEN stale + 1 ELSE stale
    /\ UNCHANGED printed

\* =====================================================================
\* PDFCreator.create_resume_pdf: parse, header, body
\* =====================================================================

\* Longest hand-made resume text, in lines.
MaxDocLines == 3

\* The locals of _parse_resume_text before the loop.
ParseStart ==
    [sections |-> EmptySections, current_section |-> "None",
     current_content |-> <<>>]

\* One iteration of `for line in lines` as a function of the locals: the
\* branch the actions SkipLine .. AdditionalLine take one at a time.
ParseLine(st, raw) ==
    LET line == Strip(raw) IN
    IF IsSkipped(line) THEN st
    ELSE IF HeaderOf(line) # "None"
    THEN [sections |-> Flush(st.sections, st.current_section,
                             st.current_content),
          current_section |-> HeaderOf(line),
          current_content |-> <<>>]
    ELSE IF IsNameLine(st.sections, line)
    THEN [st EXCEPT !.sections["name"] = line]
    ELSE IF IsContactLine(line)
    THEN [st EXCEPT !.sections["contact"] = CleanContact(line)]
    ELSE IF st.current_section # "None"
    THEN [st EXCEPT !.current_content = Append(st.current_content, line)]
    ELSE [st EXCEPT !.sections["additional"] =
                         st.sections["additional"] \o line \o <<NL>>]

RECURSIVE ParseLines(_, _)
ParseLines(st, ls) ==
    IF ls = <<>> THEN st ELSE ParseLines(ParseLine(st, Head(ls)), Tail(ls))

\* _parse_resume_text(resume_text)
ParseResumeText(resume_text) ==
    LET st == ParseLines(ParseStart, SplitLines(resume_text)) IN
    Flush(st.sections, st.current_section, st.current_content)

\* _build_header_section always taking the profile's name and contact.
BuildHeaderSectionFromProfile(secs, user_profile) ==
    [name    |-> Get(user_profile, "name", <<"Your", " ", "Name">>),
     contact |-> Get(user_profile, "email", <<"email", "@", "example.com">>)
                 \o <<" ", "|", " ">>
                 \o Get(user_profile, "phone", <<"(123)", " ", "456-7890">>)
                 \o <<" ", "|", " ">>
                 \o Get(user_profile, "location", <<"City,", " ", "State">>)]

\* _build_header_section: the texts of the two paragraphs.
BuildHeaderSection(secs, user_profile) ==
    [name    |-> IF secs["name"] # <<>> THEN secs["name"]
                 ELSE Get(user_profile, "name", <<"Your", " ", "Name">>),
     contact |-> IF secs["contact"] # <<>> THEN secs["contact"]
                 ELSE Get(user_profile, "email",
                          <<"email", "@", "example.com">>)
                      \o <<" ", "|", " ">>
                      \o Get(user_profile, "phone",
                             <<"(123)", " ", "456-7890">>)
                      \o <<" ", "|", " ">>
                      \o Get(user_profile, "location",
                             <<"City,", " ", "State">>)]

\* `section_order`
SectionOrder ==
    << [key |-> "summary",    title |-> <<"PROFESSIONAL", " ", "SUMMARY">>],
       [key |-> "skills",     title |-> <<"TECHNICAL", " ", "SKILLS">>],
       [key |-> "experience", title |-> <<"PROFESSIONAL", " ", "EXPERIENCE">>],
       [key |-> "education",  title |-> <<"EDUCATION">>],
       [key |-> "additional",
        title |-> <<"ADDITIONAL", " ", "QUALIFICATIONS">>] >>

\* `content and len(content) > 5` on the stripped content of a section.
IsRendered(secs, key) ==
    LET content == Strip(secs[key]) IN content # <<>> /\ StrLen(content) > 5

\* _build_body_sections: the sections rendered, in the fixed order, each
\* with its title and the stripped content handed to _format_section.
BuildBodySections(secs) ==
    LET kept == SelectSeq(SectionOrder,
                          LAMBDA entry : IsRendered(secs, entry.key))
    IN  [k \in 1..Len(kept) |->
            [title |-> kept[k].title, content |-> Strip(secs[kept[k].key])]]

\* The lines a hand-made resume text is made of.
DocLines ==
    { <<"John", " ", "Doe">>,
      <<"jd", "@", "x">>,
      <<"PROFESSIONAL", " ", "SUMMARY">>,
      <<"EDUCATION">>,
      <<"Python", " ", "developer">>,
      <<"BSc">> }

\* The profiles create_resume_pdf is called with.
DocProfiles ==
    GenProfiles \cup {ProfileData(<<"Ada">>, <<>>, <<"Python">>, <<>>, <<>>)}

\* The texts create_resume_pdf is called with: the template resume of each
\* profile, and every text of at most MaxDocLines of the lines above.
DocTexts ==
    {GenerateResumeTemplate(p, <<>>) : p \in DocProfiles}
    \cup {JoinLines(ls) :
              ls \in UNION {[1..n -> DocLines] : n \in 0..MaxDocLines}}

NoDocument == [pc |-> "none"]

DocIdle == document = NoDocument

\* create_resume_pdf(resume_text, user_profile) up to doc.build(story); a
\* call starts from its own empty `story`.
CreateResumePdf(resume_text, user_profile) ==
    LET secs == ParseResumeText(resume_text) IN
    /\ DocIdle
    /\ document' = [pc           |-> "created",
                 resume_text  |-> resume_text,
                 user_profile |-> user_profile,
                 sections     |-> secs,
                 header       |-> BuildHeaderSection(secs, user_profile),
                 body         |-> BuildBodySections(secs)]

\* =====================================================================
\* Specifications
\* =====================================================================

\* The store as the parser's specification holds it: untouched.
StoreIdle ==
    /\ applications_file = JsonDumpList(<<>>)
    /\ result = NoResult
    /\ printed = <<>>

\* The profile and the generator as the other specifications hold them:
\* untouched.
ProfileIdle ==
    /\ profiles_file = JsonDumpDict(JsonObject(<<>>))
    /\ saved = <<>>

GenIdle ==
    /\ api_key = <<>>
    /\ requests = 0
    /\ call = NoCall
    /\ raised = "None"

Init == ParserInit /\ StoreIdle /\ ProfileIdle /\ GenIdle /\ RaceIdle
        /\ DocIdle

Next ==
    \/ \E raw \in InputLines : SkipLine(raw) /\ UNCHANGED notParser
    \/ \E raw \in InputLines : HeaderLine(raw) /\ UNCHANGED notParser
    \/ \E raw \in InputLines : NameLine(raw) /\ UNCHANGED notParser
    \/ \E raw \in InputLines : ContactLine(raw) /\ UNCHANGED notParser
    \/ \E raw \in InputLines : ContentLine(raw) /\ UNCHANGED notParser
    \/ \E raw \in InputLines : AdditionalLine(raw) /\ UNCHANGED notParser
    \/ ParseReturn /\ UNCHANGED notParser
    \/ FormatSkillsSection /\ UNCHANGED notParser

\* _parse_resume_text on every text of at most MaxLines lines, then the
\* rendering of its skills section.
Spec == Init /\ [][Next]_vars

InitStore == ParserInit /\ StoreInit /\ ProfileIdle /\ GenIdle /\ RaceIdle
             /\ DocIdle

NextStore ==
    \/ GetJobApplications /\ UNCHANGED notRecords
    \/ ExternalRemove /\ UNCHANGED notRecords

\* get_job_applications on every applications file.
SpecStore == InitStore /\ [][NextStore]_vars

InitApps == ParserInit /\ AppsInit /\ ProfileIdle /\ GenIdle /\ RaceIdle
            /\ DocIdle

NextApps ==
    \/ GetJobApplications /\ UNCHANGED notRecords
    \/ \E c \in Companies : SaveJobApplication(c) /\ UNCHANGED notRecords
    \/ \E i \in AppIndexes, s \in StatusOptions :
           UpdateApplicationStatus(i, s) /\ UNCHANGED notRecords
    \/ \E i \in AppIndexes : DeleteApplication(i) /\ UNCHANGED notRecords

\* The operations on the application records, from a store without records.
SpecApps == InitApps /\ [][NextApps]_vars

InitProfile == ParserInit /\ StoreIdle /\ ProfileInit /\ GenIdle /\ RaceIdle
               /\ DocIdle

NextProfile ==
    \/ \E p \in Profiles : SaveUserProfile(p) /\ UNCHANGED notProfile
    \/ LoadUserProfile /\ UNCHANGED notProfile

\* Saving and loading the one profile, from a store without a profile.
SpecProfile == InitProfile /\ [][NextProfile]_vars

InitGen == ParserInit /\ StoreIdle /\ ProfileIdle /\ GenInit /\ RaceIdle
           /\ DocIdle

NextGen ==
    \/ \E key \in {<<>>, <<"key">>} :
           Configure(key) /\ UNCHANGED notGen
    \/ \E p \in GenProfiles, j \in Jobs, o \in Outcomes(ResumeCompletions) :
           GenerateResume(p, j, o) /\ UNCHANGED notGen
    \/ \E p \in GenProfiles, j \in Jobs, o \in Outcomes(LetterCompletions) :
           GenerateCoverLetter(p, j, o)
           /\ UNCHANGED notGen
    \/ \E p \in QuestionProfiles, t \in {"str", "list"}, j \in Jobs :
           GenerateInterviewQuestions(p, t, j.position_title)
           /\ UNCHANGED notGen

\* The two generators under every answer of the service.
SpecGen == InitGen /\ [][NextGen]_vars

InitStats == ParserInit /\ StatsInit /\ ProfileIdle /\ GenIdle /\ RaceIdle
             /\ DocIdle

NextStats ==
    \/ GetApplicationStats /\ UNCHANGED notRecords
    \/ \E c \in Companies : SaveJobApplication(c) /\ UNCHANGED notRecords
    \/ \E i \in AppIndexes, s \in StatusOptions :
           UpdateApplicationStatus(i, s) /\ UNCHANGED notRecords
    \/ \E i \in AppIndexes : DeleteApplication(i) /\ UNCHANGED notRecords

\* The statistics after any sequence of saves, updates and deletes.
SpecStats == InitStats /\ [][NextStats]_vars

InitRace == ParserInit /\ AppsInit /\ ProfileIdle /\ GenIdle /\ RaceIdle
            /\ DocIdle

NextRace ==
    \/ \E w \in Writers : SaveRead(w) /\ UNCHANGED notRace
    \/ \E w \in Writers : SaveWrite(w) /\ UNCHANGED notRace
    \/ GetJobApplications /\ UNCHANGED <<notRace, raceVars>>

\* Two sessions saving records, a read and a write of the whole array each,
\* in every interleaving.
SpecRace == InitRace /\ [][NextRace]_vars

InitDoc == ParserInit /\ StoreIdle /\ ProfileIdle /\ GenIdle /\ RaceIdle
           /\ DocIdle

NextDoc ==
    \E t \in DocTexts, p \in DocProfiles :
        CreateResumePdf(t, p) /\ UNCHANGED notDoc

\* create_resume_pdf on every text and profile.
SpecDoc == InitDoc /\ [][NextDoc]_vars


\* =====================================================================
\* Claims about _parse_resume_text and _format_skills_content
\* =====================================================================

\* The non-empty lines of a stored text.
StoredLines(s) ==
    {SplitLines(s)[k] : k \in 1..Len(SplitLines(s))} \ {<<>>}

Range(f) == {f[k] : k \in DOMAIN f}

\* A step of the loop that reads the raw line raw.
Reads(raw) == pc = "loop" /\ lines' = Append(lines, raw)

\* The raw line is neither empty after trimming nor brace-led, so the loop
\* classifies it.
Live(raw) ==
    LET line == Strip(raw) IN line # <<>> /\ line[1] \notin {"{", "}"}

\* The raw line carries a header label.
IsHeader(raw) == HeaderOf(Strip(raw)) # "None"

\* A classified line that is no header and holds neither '@' nor 'http':
\* what the name can be taken from.
CouldBeName(raw) ==
    /\ Live(raw)
    /\ ~IsHeader(raw)
    /\ "@" \notin Range(raw)
    /\ "http" \notin Range(raw)

\* The raw line holds one of the contact marks.
HasContactMark(raw) == Range(raw) \cap {"@", "|", "Phone", "Email"} # {}

JohnDoe == <<"John", " ", "Doe">>

\* C1: for every input text, the empty one and those of noise or of
\* duplicated or missing headers included, the mapping _parse_resume_text
\* builds and returns has exactly the keys name, contact, summary, skills,
\* experience, education and additional, each mapped to a string; the cursor
\* is unset or one of these keys, so no assignment through it can fail.
C1_EverySectionKeyIsAString ==
    /\ DOMAIN sections = SectionKeys
    /\ \A k \in SectionKeys : sections[k] \in Seq(STRING)
    /\ current_section \in {"None"} \cup SectionKeys

\* C1 witness: the empty text has been parsed, every key maps to ''.
C1_Witness ==
    /\ pc = "parsed"
    /\ lines = << <<>> >>
    /\ \A k \in SectionKeys : sections[k] = <<>>

\* C2: when the content accumulated under a header is flushed (at the next
\* header or at the end of the text) into a section that already holds the
\* content of an earlier occurrence of the same header, the section becomes
\* the earlier content, a newline, then the later content.
C2_DuplicateHeadersAreMerged ==
    [][ ( /\ pc = "loop"
          /\ \/ pc' = "parsed"
             \/ \E raw \in InputLines : Reads(raw) /\ Live(raw) /\ IsHeader(raw)
          /\ current_section # "None"
          /\ current_content # <<>>
          /\ sections[current_section] # <<>> )
        => sections'[current_section] =
               sections[current_section] \o <<NL>> \o JoinLines(current_content)
      ]_vars

\* C3: a classified line that contains a header label only moves the cursor
\* to that header's section: the name and the contact keep their values,
\* the accumulator restarts empty, and every line a section holds afterwards
\* was held by it before or had been accumulated before, so no text of the
\* header line is stored, whatever else the line contains.
C3_HeaderLineOnlyMovesTheCursor ==
    [][ \A raw \in InputLines :
          (Reads(raw) /\ Live(raw) /\ IsHeader(raw))
          => /\ current_section' = HeaderOf(Strip(raw))
             /\ sections'["name"] = sections["name"]
             /\ sections'["contact"] = sections["contact"]
             /\ current_content' = <<>>
             /\ \A k \in SectionKeys :
                   StoredLines(sections'[k]) \subseteq
                       StoredLines(sections[k]) \cup Range(current_content)
      ]_vars

\* C3 witness: after the name, the header line "Skills: jd@x | Phone" has
\* been read: the cursor is on skills, the name stands, no contact is set.
C3_Witness ==
    /\ pc = "loop"
    /\ Len(lines) = 2
    /\ lines[2] = <<"Skills", ":", " ", "jd", "@", "x", " ", "|", " ", "Phone">>
    /\ current_section = "skills"
    /\ current_content = <<>>
    /\ sections["name"] = JohnDoe
    /\ sections["contact"] = <<>>

\* C4 as stated: the name is the first non-header line with neither '@' nor
\* 'http', no later line changes it, and a later line that could have been
\* the name is appended to the current section.
C4_LaterNameLineJoinsCurrentSection ==
    [][ \A raw \in InputLines :
          Reads(raw)
          => /\ (sections["name"] = <<>> /\ CouldBeName(raw))
                    => sections'["name"] = Strip(raw)
             /\ sections["name"] # <<>> => sections'["name"] = sections["name"]
             /\ (sections["name"] # <<>> /\ CouldBeName(raw)
                                         /\ current_section # "None")
                    => current_content' = Append(current_content, Strip(raw))
      ]_vars

\* C4 amended: the name is the first line that is neither discarded nor a
\* header and holds neither '@' nor 'http'; no other line sets it and no
\* later line changes it.  A later line that could have been the name
\* becomes the contact when it holds '|', 'Phone' or 'Email'; otherwise
\* it is appended to the current section, or to additional when no section
\* is open.
C4_NameIsCapturedOnce ==
    [][ \A raw \in InputLines :
          Reads(raw)
          => /\ (sections["name"] = <<>> /\ CouldBeName(raw))
                    => sections'["name"] = Strip(raw)
             /\ (sections["name"] = <<>> /\ ~CouldBeName(raw))
                    => sections'["name"] = <<>>
             /\ sections["name"] # <<>> => sections'["name"] = sections["name"]
             /\ (sections["name"] # <<>> /\ CouldBeName(raw))
                    => IF HasContactMark(raw)
                       THEN /\ sections'["contact"] # <<>>
                            /\ current_content' = current_content
                            /\ sections'["additional"] = sections["additional"]
                       ELSE IF current_section # "None"
                       THEN /\ current_content' =
                                   Append(current_content, Strip(raw))
                            /\ sections' = sections
                       ELSE /\ sections'["additional"] =
                                   sections["additional"] \o Strip(raw) \o <<NL>>
                            /\ current_content' = current_content
      ]_vars

\* C4 witness: "John Doe", "PROFESSIONAL SUMMARY" and a second plain line
\* have been parsed: the name is the first line, the later one is the
\* summary.
C4_Witness ==
    /\ pc = "parsed"
    /\ Len(lines) = 3
    /\ CouldBeName(lines[1]) /\ IsHeader(lines[2]) /\ CouldBeName(lines[3])
    /\ sections["name"] = Strip(lines[1])
    /\ sections["summary"] = Strip(lines[3])

\* A line the loop takes as contact line: classified, no header, not taken
\* as the name, and holding a contact mark.
TakenAsContact(raw) ==
    /\ Live(raw)
    /\ ~IsHeader(raw)
    /\ ~(sections["name"] = <<>> /\ CouldBeName(raw))
    /\ HasContactMark(raw)

\* C5: the contact is last-match-wins.  Every line taken as contact line
\* replaces the contact by its own trimmed text without the bullet artifact,
\* whatever the contact held, and is stored nowhere else; no other step
\* changes the contact.  So the returned contact is the last contact line
\* and earlier ones leave no trace.
C5_ContactLastMatchWins ==
    [][ /\ \A raw \in InputLines :
              Reads(raw)
              => IF TakenAsContact(raw)
                 THEN /\ sections' = [sections EXCEPT !["contact"] =
                              Strip(Replace(Strip(raw), BULLET_ARTIFACT, <<>>))]
                      /\ current_content' = current_content
                 ELSE sections'["contact"] = sections["contact"]
        /\ lines' = lines => sections'["contact"] = sections["contact"]
      ]_vars

\* C5 witness: after the name, the contact lines "jd@x" and "‚Ä¢ Phone" have
\* been parsed, and the contact is "Phone".
C5_Witness ==
    /\ pc = "parsed"
    /\ lines = << <<" ", "John", " ", "Doe">>,
                  <<"jd", "@", "x">>,
                  <<"U201A", "U00C4", "U00A2", " ", "Phone">> >>
    /\ sections["contact"] = <<"Phone">>

\* Structural noise: empty after trimming, braces only, or only '|' and
\* whitespace.
IsStructuralNoise(raw) ==
    \/ Strip(raw) = <<>>
    \/ Range(raw) \subseteq {"{", "}"}
    \/ Range(raw) \subseteq {"|", " ", "\t"}

\* C6: a line that is empty after trimming or made only of structural noise
\* (braces only, or only '|' and whitespace) is discarded: reading it
\* changes no field of the result, neither the cursor nor the accumulator.
C6_NoiseLinesAreDiscarded ==
    [][ \A raw \in InputLines :
          (Reads(raw) /\ IsStructuralNoise(raw))
          => UNCHANGED <<sections, current_section, current_content>>
      ]_vars

\* C7: neither the contact _parse_resume_text produces nor any skills
\* paragraph _format_skills_content emits contains the bullet artifact.
C7_ArtifactIsStripped ==
    /\ ~Contains(sections["contact"], BULLET_ARTIFACT)
    /\ \A k \in 1..Len(story) : ~Contains(story[k], BULLET_ARTIFACT)


\* =====================================================================
\* Claims about get_job_applications
\* =====================================================================

\* The file holds a JSON array.
HoldsArray(file) == file.kind = "json" /\ file.top = "array"

\* The entries of an array that are objects, in their order.
ObjectEntries(items) == SelectSeq(items, LAMBDA e : e.type = "object")

\* C8: when the file holds a JSON array some of whose entries are not
\* objects, get_job_applications returns exactly the object entries in their
\* original order and leaves the file holding exactly that array.
C8_NonObjectEntriesAreDropped ==
    [][ ( /\ GetJobApplications
          /\ HoldsArray(applications_file)
          /\ \E k \in 1..Len(applications_file.items) :
                 applications_file.items[k].type # "object" )
        => /\ result'.value = ObjectEntries(applications_file.items)
           /\ applications_file' =
                  FileOf("json", "array", ObjectEntries(applications_file.items))
      ]_vars

\* C8 witness: a call on [{"company_name": "A"}, "garbage", 42] has skipped
\* two entries, returned the one record and rewritten the file with it.
C8_Witness ==
    /\ result = [op |-> "get_job_applications",
                 value |-> <<JsonObject("company_name" :> "A")>>]
    /\ printed = <<"skipping corrupted", "skipping corrupted", "Cleaned">>
    /\ applications_file =
           FileOf("json", "array", <<JsonObject("company_name" :> "A")>>)

\* C9: when the file is missing, is empty or does not hold valid JSON,
\* get_job_applications returns the empty list and leaves the file holding
\* the empty array.
C9_UnreadableFileIsReset ==
    [][ ( /\ GetJobApplications
          /\ applications_file.kind \in
                 {"missing", "empty", "malformed", "undecodable"} )
        => /\ result'.value = <<>>
           /\ applications_file' = FileOf("json", "array", <<>>)
      ]_vars

\* C10: when the file holds valid JSON whose top-level value is no array,
\* get_job_applications returns the empty list and leaves the file holding
\* the empty array.
C10_WrongTopLevelTypeIsReset ==
    [][ ( /\ GetJobApplications
          /\ applications_file.kind = "json"
          /\ applications_file.top # "array" )
        => /\ result'.value = <<>>
           /\ applications_file' = FileOf("json", "array", <<>>)
      ]_vars

\* =====================================================================
\* Claims about the operations on the application records
\* =====================================================================

\* The application records a file holds, in their order.
Records(file) == ObjectEntries(file.items)

\* Field k of record j of a list.
Field(records, j, k) == records[j].fields[k]

\* C11: on a stored list of n records and an index 0 <= i < n,
\* update_application_status(i, s) returns success, leaves record i with
\* status s, leaves every other record identical and leaves the number and
\* the order of the records unchanged.
C11_UpdateTouchesOnlyRecordI ==
    [][ \A i \in AppIndexes, s \in StatusOptions :
          LET before == Records(applications_file)
              after  == Records(applications_file')
          IN  ( /\ result'.op = "update_application_status"
                /\ UpdateApplicationStatus(i, s)
                /\ 0 <= i
                /\ i < Len(before) )
              => /\ result'.value = Returned("True")
                 /\ Len(after) = Len(before)
                 /\ Field(after, i + 1, "status") = s
                 /\ \A j \in 1..Len(before) :
                        j # i + 1 => after[j] = before[j]
      ]_vars

\* C11 witness: the second of three records has been set to 'interview'
\* while its neighbours are still 'pending'.
C11_Witness ==
    /\ result = [op |-> "update_application_status", value |-> Returned("True")]
    /\ Len(Records(applications_file)) = 3
    /\ Field(Records(applications_file), 1, "status") = "pending"
    /\ Field(Records(applications_file), 2, "status") = "interview"
    /\ Field(Records(applications_file), 3, "status") = "pending"

\* C12 as stated: a successful update leaves record i with the same set of
\* fields and the same value in every field but status.
C12_UpdateChangesOnlyTheStatusField ==
    [][ \A i \in AppIndexes, s \in StatusOptions :
          LET before == Records(applications_file)
              after  == Records(applications_file')
          IN  ( /\ result'.op = "update_application_status"
                /\ UpdateApplicationStatus(i, s)
                /\ 0 <= i
                /\ i < Len(before) )
              => /\ DOMAIN after[i + 1].fields = DOMAIN before[i + 1].fields
                 /\ \A k \in DOMAIN before[i + 1].fields \ {"status"} :
                        Field(after, i + 1, k) = Field(before, i + 1, k)
      ]_vars

\* C12: a successful update_application_status(i, s) changes only the
\* status and the updated_at of record i: the record has the fields it had
\* and updated_at, and every field other than these two keeps its value.
C12_UpdateChangesStatusAndUpdatedAt ==
    [][ \A i \in AppIndexes, s \in StatusOptions :
          LET before == Records(applications_file)
              after  == Records(applications_file')
          IN  ( /\ result'.op = "update_application_status"
                /\ UpdateApplicationStatus(i, s)
                /\ 0 <= i
                /\ i < Len(before) )
              => /\ DOMAIN after[i + 1].fields =
                        DOMAIN before[i + 1].fields \cup {"updated_at"}
                 /\ \A k \in DOMAIN before[i + 1].fields
                                 \ {"status", "updated_at"} :
                        Field(after, i + 1, k) = Field(before, i + 1, k)
      ]_vars

\* C12 witness: an update has succeeded on the only record, which now has
\* updated_at next to the three fields it was saved with.
C12_Witness ==
    /\ result = [op |-> "update_application_status", value |-> Returned("True")]
    /\ Len(Records(applications_file)) = 1
    /\ DOMAIN Records(applications_file)[1].fields =
           {"company_name", "application_date", "status", "updated_at"}
    /\ Field(Records(applications_file), 1, "company_name") = "A"
    /\ Field(Records(applications_file), 1, "status") = "offered"

\* C13: with an index below 0 or not below the number of stored records,
\* update_application_status returns failure and the stored list of records
\* is the same before and after; a file holding nothing but records is left
\* as it was.
C13_OutOfRangeUpdateChangesNothing ==
    [][ \A i \in AppIndexes, s \in StatusOptions :
          ( /\ result'.op = "update_application_status"
            /\ UpdateApplicationStatus(i, s)
            /\ (i < 0 \/ i >= Len(Records(applications_file))) )
          => /\ result'.value = Returned("False")
             /\ Records(applications_file') = Records(applications_file)
             /\ ( /\ HoldsArray(applications_file)
                  /\ Records(applications_file) = applications_file.items )
                => applications_file' = applications_file
      ]_vars

\* C13 witness: an update has been refused on a store of two records, one
\* of them no longer pending.
C13_Witness ==
    /\ result = [op |-> "update_application_status", value |-> Returned("False")]
    /\ Len(Records(applications_file)) = 2
    /\ Field(Records(applications_file), 1, "status") = "rejected"

Without(records, k) ==
    SubSeq(records, 1, k - 1) \o SubSeq(records, k + 1, Len(records))

\* The fields a record is saved with and no operation writes again.
SameRecord(a, b) ==
    /\ a.fields["company_name"] = b.fields["company_name"]
    /\ a.fields["application_date"] = b.fields["application_date"]

C19_LoadReturnsTheLastSavedProfile ==
    result.op = "load_user_profile"
    => result.value = (IF saved = <<>> THEN PyNone ELSE saved)

\* C19 witness: Jane's profile without skills has replaced an earlier
\* profile and has been loaded back.
C19_Witness ==
    /\ result.op = "load_user_profile"
    /\ saved = <<ProfileData(<<"Jane">>, <<>>, <<>>, <<>>, <<"BSc">>)>>
    /\ result.value = saved

\* =====================================================================
\* Claims about generate_resume and generate_cover_letter
\* =====================================================================

\* The uses of the service that fail: the client cannot be created, the
\* completion call raises, or the response has no choices.
Failures == Outcomes({})

\* C15: with a credential configured, whenever the remote path of
\* generate_resume or generate_cover_letter fails (creating the client, the
\* completion call, a malformed response), the call raises nothing and
\* returns exactly what the template fallback returns for the same inputs.
C15_RemoteFailureFallsBackToTemplate ==
    [][ \A p \in GenProfiles, j \in Jobs, o \in Failures :
          /\ ( api_key # <<>> /\ GenerateResume(p, j, o) )
             => /\ raised' = "None"
                /\ result'.value =
                       GenerateResumeTemplate(p, j.job_description)
          /\ ( api_key # <<>> /\ GenerateCoverLetter(p, j, o) )
             => /\ raised' = "None"
                /\ result'.value =
                       GenerateCoverLetterTemplate(p, j.company_name,
                           j.position_title, j.job_description)
      ]_vars

C17_TemplateLetterHoldsTheSkillsText ==
    ( call.op = "generate_cover_letter" /\ call.key = <<>> )
    => /\ Contains(CharsOf(result.value),
                   CharsOf(call.profile.fields["skills"]))
       /\ Contains(result.value, call.job.position_title)
       /\ Contains(result.value, call.job.company_name)
       /\ Contains(result.value, call.profile.fields["experience"])
       /\ Contains(result.value, call.profile.fields["name"])

\* Number of places at which p occurs in s.
Count(s, p) == Cardinality({k \in 1..Len(s) : OccursAt(s, p, k)})

\* The four headers of the rebuilt resume, in their order.
ResumeHeaders ==
    << <<"PROFESSIONAL", " ", "SUMMARY">>,
       <<"TECHNICAL", " ", "SKILLS">>,
       <<"PROFESSIONAL", " ", "EXPERIENCE">>,
       <<"EDUCATION">> >>

\* C18: whatever text the completion holds, the document generate_resume
\* returns on the remote success path has each of the headers PROFESSIONAL
\* SUMMARY, TECHNICAL SKILLS, PROFESSIONAL EXPERIENCE and EDUCATION exactly
\* once, in that order.
C18_EachHeaderOccursOnce ==
    ( /\ call.op = "generate_resume"
      /\ call.key # <<>>
      /\ raised = "None"
      /\ printed = <<>> )
    => /\ \A h \in 1..4 : Count(result.value, ResumeHeaders[h]) = 1
       /\ \A h \in 1..3 : Find(result.value, ResumeHeaders[h])
                              < Find(result.value, ResumeHeaders[h + 1])

\* =====================================================================
\* Claims about delete_application and get_application_stats
\* =====================================================================

\* C21: on a stored list of n records, delete_application(i) with
\* 0 <= i < n returns success and the stored list becomes the old list
\* without element i (every record behind i one index lower, every remaining
\* record as it was); with i < 0 or i >= n it returns failure and the stored
\* list is what it was.
C21_DeleteRemovesExactlyRecordI ==
    [][ \A i \in AppIndexes :
          LET before == Records(applications_file)
              after  == Records(applications_file')
          IN  ( /\ result'.op = "delete_application"
                /\ DeleteApplication(i) )
              => IF 0 <= i /\ i < Len(before)
                 THEN /\ result'.value = Returned("True")
                      /\ after = Without(before, i + 1)
                      /\ Len(after) = Len(before) - 1
                      /\ \A j \in 1..Len(after) :
                             after[j] = IF j <= i THEN before[j]
                                                 ELSE before[j + 1]
                 ELSE /\ result'.value = Returned("False")
                      /\ after = before
      ]_vars

\* C21 witness: a delete has succeeded and left a rejected record in front
\* of an interview record.
C21_Witness ==
    /\ result = [op |-> "delete_application", value |-> Returned("True")]
    /\ Len(Records(applications_file)) = 2
    /\ Field(Records(applications_file), 1, "status") = "rejected"
    /\ Field(Records(applications_file), 2, "status") = "interview"

\* C22: nothing guards the applications file against two sessions saving at
\* once.  The stored list never holds more records than save calls have
\* returned, and it holds one record for each of them exactly when no call
\* wrote a list it had read before another call's write: a call that does
\* overwrites what was saved in between, so after two racing calls the list
\* holds only one of the two records.
C22_RacingSavesLoseRecords ==
    /\ Len(Records(applications_file)) <= saves
    /\ (stale = 0) <=> (Len(Records(applications_file)) = saves)

\* C22 witness: both sessions read the empty list, A wrote, then B wrote:
\* two calls have returned and the list holds B's record only.
C22_Witness ==
    /\ saves = 2
    /\ \A w \in Writers : writers[w].pc = "idle"
    /\ Len(Records(applications_file)) = 1
    /\ Field(Records(applications_file), 1, "company_name") = "B"

C25_EverySkillsLineIsABullet ==
    ( /\ pc = "rendered"
      /\ StrLen(Strip(sections["skills"])) > 5 )
    => story = SelectSeq(SplitLines(Strip(sections["skills"])),
                         LAMBDA line : Strip(line) # <<>>)

\* The lines stored in a section: the joined lines of summary, skills,
\* experience and education, the newline-ended lines of additional.
BodyKeys == {"summary", "skills", "experience", "education", "additional"}

BodyLines(s) ==
    IF s = <<>> THEN <<>>
    ELSE IF s[Len(s)] = NL THEN SplitLines(SubSeq(s, 1, Len(s) - 1))
    ELSE SplitLines(s)

\* C30: in every result of _parse_resume_text and at every step towards
\* it, no line stored in summary, skills, experience, education or
\* additional is empty, holds '@', '|', 'Phone' or 'Email', or holds a
\* header label in any case (so the experience section has neither a blank
\* line nor a '|' title line); and a step that reads a line changes at most
\* one of the fields and the accumulator, a header line being stored
\* nowhere.
C30_SectionsAreDisjointAndClean ==
    [][ /\ \A k \in BodyKeys :
             \A n \in 1..Len(BodyLines(sections'[k])) :
                LET line == BodyLines(sections'[k])[n] IN
                /\ line # <<>>
                /\ Range(line) \cap {"@", "|", "Phone", "Email"} = {}
                /\ \A label \in {"SUMMARY", "SKILLS", "EXPERIENCE",
                                   "EDUCATION"} :
                       label \notin Range(UpperStr(line))
        /\ \A raw \in InputLines :
             Reads(raw)
             => /\ Cardinality({k \in SectionKeys \ {current_section} :
                                    sections'[k] # sections[k]})
                      + (IF current_content' # current_content
                            /\ current_content' # <<>> THEN 1 ELSE 0) <= 1
                /\ \A n \in 1..Len(current_content') :
                       Range(current_content'[n])
                           \cap {"@", "|", "Phone", "Email"} = {}
                /\ IsHeader(raw) /\ Live(raw)
                   => /\ current_content' = <<>>
                      /\ \A k \in {"name", "contact", "additional"} :
                             sections'[k] = sections[k]
      ]_vars

\* C30 witness: a text of a name, a header, a contact line and a bullet
\* has been parsed into name, contact and experience.
C30_Witness ==
    /\ pc = "parsed"
    /\ Len(lines) = 4
    /\ sections["name"] = JohnDoe
    /\ sections["contact"] = <<"jd", "@", "x">>
    /\ sections["experience"] = BULLET_ARTIFACT \o <<" ", "Python">>

\* =====================================================================
\* Claims about the post-processing of a generated cover letter
\* =====================================================================

\* The lines of the completion once the comment wrapper, the code fences
\* and the comment lines are taken off.
CleanedLines(text) ==
    SplitLines(DropCommentLines(
        ExtractFencedLetter(StripCommentWrapper(Strip(text)))))

\* The index of the first of these lines that opens with a closing phrase,
\* 0 when there is none.
FirstClosing(ls) ==
    IF \E k \in 1..Len(ls) : StartsWithClosing(Strip(ls[k]))
    THEN CHOOSE k \in 1..Len(ls) :
             /\ StartsWithClosing(Strip(ls[k]))
             /\ \A j \in 1..(k - 1) : ~StartsWithClosing(Strip(ls[j]))
    ELSE 0

\* C26: on the remote success path of generate_cover_letter, when the
\* cleaned text has a line opening with Sincerely, / Best regards, / Yours
\* truly, / Kind regards, the returned letter is the text up to the first
\* such line and at most one line more; nothing behind that is returned.
C26_NothingFollowsTheSignature ==
    [][ \A p \in GenProfiles, j \in Jobs, o \in Outcomes(LetterCompletions) :
          ( /\ api_key # <<>>
            /\ o.client = "ok"
            /\ o.response = "text"
            /\ GenerateCoverLetter(p, j, o)
            /\ FirstClosing(CleanedLines(o.text)) # 0 )
          => LET ls       == CleanedLines(o.text)
                 k        == FirstClosing(ls)
                 returned == SplitLines(result'.value)
             IN  /\ Len(returned) <= k + 1
                 /\ \A n \in 1..Len(returned) :
                        Strip(returned[n]) = Strip(ls[n])
      ]_vars

\* =====================================================================
\* Claims about generate_interview_questions
\* =====================================================================

\* C27: generate_interview_questions raises nothing and returns a list of
\* one to ten questions: the five fixed default questions when an error
\* occurred inside it; else ten questions (two general, three technical,
\* three behavioural and the first two about the position) for a profile
\* whose skills text lists a skill, and eight questions (two general, three
\* behavioural, three about the position) for a profile without skills.
C27_QuestionsAreTenEightOrTheDefaults ==
    call.op = "generate_interview_questions"
    => LET questions == result.value
           title     == call.job.position_title
           skills    == SkillsList(Get(call.profile, "skills", <<>>))
       IN  /\ raised = "None"
           /\ 1 <= Len(questions) /\ Len(questions) <= 10
           /\ IF printed # <<>>
              THEN /\ Len(questions) = 5
                   /\ questions = DefaultQuestions
              ELSE /\ SubSeq(questions, 1, 2)
                          = GeneralQuestions(skills, title)
                   /\ IF skills # <<>>
                      THEN /\ Len(questions) = 10
                           /\ StartsWith(questions[3], <<"Explain">>)
                           /\ SubSeq(questions, 6, 8)
                                  = BehavioralQuestions(skills)
                           /\ SubSeq(questions, 9, 10)
                                  = SubSeq(PositionQuestions(title), 1, 2)
                      ELSE /\ Len(questions) = 8
                           /\ SubSeq(questions, 3, 5)
                                  = BehavioralQuestions(skills)
                           /\ SubSeq(questions, 6, 8)
                                  = PositionQuestions(title)

\* C27 witness: John Doe's ten questions, the second technical one about
\* the second skill, after two completion requests.
C27_Witness ==
    /\ call.op = "generate_interview_questions"
    /\ call.profile.fields["name"] = <<"John", " ", "Doe">>
    /\ call.skills_type = "str"
    /\ requests = 2
    /\ Len(result.value) = 10
    /\ Contains(result.value[4], <<"SQL", " ", "implementation?">>)

\* A text without its whitespace.
Squeeze(s) == SelectSeq(s, LAMBDA c : ~IsSpace(c))

\* The sections of a document written back as text in the layout of the
\* header and body renderers: the name line, the contact line, then each
\* rendered section as its title line followed by its content.
RenderedText(doc) ==
    JoinLines(<<doc.header.name, doc.header.contact>>
              \o [k \in 1..Len(doc.body) |->
                     doc.body[k].title \o <<NL>> \o doc.body[k].content])

\* C23: parsing a text that has a name and a contact, writing the sections
\* back as the renderers lay them out and parsing that text again gives the
\* same name, contact, summary, skills, experience, education and
\* additional contents, whitespace aside.
C23_ParsingTheRenderedTextGivesTheSameSections ==
    (/\ document.pc = "created"
     /\ document.sections["name"] # <<>>
     /\ document.sections["contact"] # <<>>)
        => LET again == ParseResumeText(RenderedText(document))
           IN  \A key \in SectionKeys :
                   Squeeze(again[key]) = Squeeze(document.sections[key])

\* "email | phone | location" of a stored profile.
ProfileContact(user_profile) ==
    user_profile.fields["email"] \o <<" ", "|", " ">>
    \o user_profile.fields["phone"] \o <<" ", "|", " ">>
    \o user_profile.fields["location"]

\* C24: the header of a created document has a name and a contact; each is
\* the parsed one when parsing captured one, otherwise the profile's name,
\* respectively "email | phone | location" of the profile.
C24_HeaderFallsBackToTheProfile ==
    document.pc = "created"
        => /\ document.header.name # <<>>
           /\ document.header.contact # <<>>
           /\ document.header.name
                  = IF document.sections["name"] = <<>>
                    THEN document.user_profile.fields["name"]
                    ELSE document.sections["name"]
           /\ document.header.contact
                  = IF document.sections["contact"] = <<>>
                    THEN ProfileContact(document.user_profile)
                    ELSE document.sections["contact"]

\* C24 witness: a text of one e-mail line, so that the header carries the
\* parsed contact and Jane's name from the profile.
C24_Witness ==
    /\ document.pc = "created"
    /\ document.resume_text = <<"jd", "@", "x">>
    /\ document.sections["name"] = <<>>
    /\ document.sections["contact"] = <<"jd", "@", "x">>
    /\ document.header.name = <<"Jane">>
    /\ document.header.contact = <<"jd", "@", "x">>

\* C28: parsing the template resume of a profile gives the profile's name,
\* a summary holding the template's summary sentences, and skills,
\* experience and education sections containing the profile's fields.
C28_TheTemplateResumeSurvivesParsing ==
    (/\ document.pc = "created"
     /\ document.resume_text
            = GenerateResumeTemplate(document.user_profile, <<>>))
        => /\ document.sections["name"] = document.user_profile.fields["name"]
           /\ document.sections["summary"] # <<>>
           /\ Contains(document.sections["summary"],
                       <<"Seeking", " ", "to", " ", "leverage">>)
           /\ Contains(document.sections["skills"],
                       document.user_profile.fields["skills"])
           /\ Contains(document.sections["experience"],
                       document.user_profile.fields["experience"])
           /\ Contains(document.sections["education"],
                       document.user_profile.fields["education"])

====
